---- MODULE Spec2Model ----
(***************************************************************************)
(* Model of the trip / shipment lifecycle and of payment reconciliation of *)
(* the Servex Holdings back office.  Every handler is one atomic action    *)
(* over the document store: the collections are functions from the ids of  *)
(* the stored documents to the fields the handlers read or write.          *)
(***************************************************************************)
EXTENDS Integers, Sequences, FiniteSets, TLC

\* ------------------------------------------------------------- bounds
MaxTrips == 2
MaxShipments == 2
MaxPieces == 2
MaxExpenses == 1
MaxClock == 2
MaxRand == 2
MaxPayments == 2
MaxAmount == 2
MaxInvoices == 3
MaxDocuments == 3

\* ------------------------------------------------------------- values
None == 0
Absent == "absent"

Tenants == {"tA"}
Roles == {"owner", "manager"}
Users == [tenant_id : Tenants, role : Roles]

TripIds == 1..MaxTrips
ShipmentIds == 1..MaxShipments
PieceIds == 1..MaxPieces
ExpenseIds == 1..MaxExpenses
PaymentIds == 1..MaxPayments

TripNumbers == {"S1", "S2"}
TripStatus == {"planning", "loading", "in_transit", "delivered", "closed"}
ShipmentStatus == {"warehouse", "staged", "loaded", "in_transit", "delivered"}
InvoiceStatus == {"draft", "sent", "paid", "overdue"}
PieceNumbers == 1..2
Amounts == 1..MaxAmount
ExpenseAmounts == {10, 20}

\* ------------------------------------------------------------- barcodes
\* A barcode is the text  prefix "-" a [ "-" b ] , kept as its three parts:
\* a and b are sequences of characters, each character its value 0..15.
RECURSIVE DecDigits(_)
DecDigits(n) == IF n < 10 THEN <<n>> ELSE Append(DecDigits(n \div 10), n % 10)

RECURSIVE ZeroPad(_, _)
ZeroPad(ds, w) == IF Len(ds) >= w THEN ds ELSE ZeroPad(<<0>> \o ds, w)

\* f"{n:0wd}"
Fmt(n, w) == ZeroPad(DecDigits(n), w)

\* random.choices(string.digits, k=6): the draws the model follows
RandomDigits == {ZeroPad(<<r>>, 6) : r \in 0..(MaxRand - 1)}

\* uuid.uuid4().hex[:8].upper(): the draws the model follows, one of them
\* all decimal, one holding the character "A" (10)
RandomHex == {ZeroPad(<<r>>, 8) : r \in {1, 10}}

generate_barcode_trip(trip_number, shipment_seq, piece_number) ==
    [prefix |-> trip_number, a |-> Fmt(shipment_seq, 3), b |-> Fmt(piece_number, 2)]

generate_barcode_temp(random_digits) ==
    [prefix |-> "TEMP", a |-> random_digits, b |-> <<>>]

\* generate_barcode, random_digits the draw it makes when there is no trip number
generate_barcode(trip_number, shipment_seq, piece_number, random_digits) ==
    IF trip_number # Absent
    THEN generate_barcode_trip(trip_number, shipment_seq, piece_number)
    ELSE generate_barcode_temp(random_digits)

\* "TEMP-" followed by exactly six decimal digits
IsTempPattern(bc) ==
    /\ bc.prefix = "TEMP"
    /\ Len(bc.a) = 6
    /\ \A i \in 1..Len(bc.a) : bc.a[i] <= 9
    /\ bc.b = <<>>

\* "<trip_number>-<3-digit seq>-<2-digit piece_number>"
IsTripPattern(bc, trip_number, piece_number) ==
    /\ bc.prefix = trip_number
    /\ Len(bc.a) = 3
    /\ \A i \in 1..Len(bc.a) : bc.a[i] <= 9
    /\ bc.b = Fmt(piece_number, 2)

\* ------------------------------------------------------------- state
VARIABLES trips, shipments, pieces, expenses, invoices, payments, documents, made, clock, resp,
          vehicle_compliance, driver_compliance, calls, invoice_line_items

\* the fleet's compliance items, the requests in flight and the line items of
\* the invoices
aside == <<vehicle_compliance, driver_compliance, calls, invoice_line_items>>

dbvars == <<trips, shipments, pieces, expenses, invoices, payments, documents, made, clock, aside>>
vars == <<trips, shipments, pieces, expenses, invoices, payments, documents, made, clock, resp, aside>>

\* the answer of the request: its handler, the status code, the detail text
Reply(op, code, detail) ==
    resp' = [op |-> op, code |-> code, detail |-> detail]

\* str(uuid.uuid4()): ids are handed out in order and never handed out twice
NewId(kind) == made[kind] + 1
Made(kind) == [made EXCEPT ![kind] = made[kind] + 1]

\* datetime.now(timezone.utc): the clock counts days, so that Now is also
\* today's date; a stamp is the day it was taken on and None is no stamp
Now == clock

TripFound(trip_id, tenant_id) ==
    trip_id \in DOMAIN trips /\ trips[trip_id].tenant_id = tenant_id

RECURSIVE InOrder(_)
InOrder(S) ==
    IF S = {} THEN <<>>
    ELSE LET m == CHOOSE x \in S : \A y \in S : x <= y IN <<m>> \o InOrder(S \ {m})

\* cursor.to_list(100): the length every list the handlers below read is cut to
ListLimit == 100

\* cursor.to_list(length): the first `length` documents found, in the order
\* they were inserted
RECURSIVE to_list(_, _)
to_list(found, length) ==
    IF Cardinality(found) <= length THEN found
    ELSE to_list(found \ {CHOOSE x \in found : \A y \in found : y <= x}, length)

\* db.shipment_pieces.find({"shipment_id": shipment_id}).to_list(100)
PiecesOf(shipment_id) ==
    to_list({p \in DOMAIN pieces : pieces[p].shipment_id = shipment_id}, ListLimit)

\* db.shipments.count_documents({"tenant_id": tenant_id, "trip_id": trip_id})
CountShipments(shps, tenant_id, trip_id) ==
    Cardinality({s \in DOMAIN shps : shps[s].tenant_id = tenant_id /\ shps[s].trip_id = trip_id})

\* The loop  for piece in pieces: update_one({"id": piece["id"]}, {"$set": {"barcode": ...}})
\* under the unique index on shipment_pieces.barcode: the first write of a barcode
\* that another piece holds raises DuplicateKeyError and ends the handler, the
\* earlier writes kept.
RECURSIVE WriteBarcodes(_, _, _)
WriteBarcodes(pcs, ids, new) ==
    IF ids = <<>> THEN [pieces |-> pcs, ok |-> TRUE]
    ELSE LET p == Head(ids) IN
         IF \E q \in DOMAIN pcs \ {p} : pcs[q].barcode = new[p]
         THEN [pieces |-> pcs, ok |-> FALSE]
         ELSE WriteBarcodes([pcs EXCEPT ![p].barcode = new[p]], Tail(ids), new)

\* ------------------------------------------------------------- trips
\* no trip of the tenant is ever found to hold the number
ExistingTripNever(tenant_id, trip_number, trip_id) == FALSE
\* db.trips.find_one({"tenant_id": tenant_id, "trip_number": trip_number,
\* "id": {"$ne": trip_id}}); create_trip, which has no trip yet, leaves the
\* "id" condition out (trip_id = None)
ExistingTrip(tenant_id, trip_number, trip_id) ==
    \E t \in DOMAIN trips \ {trip_id} :
        trips[t].tenant_id = tenant_id /\ trips[t].trip_number = trip_number

create_trip(user, trip_number) ==
    LET tenant_id == user.tenant_id
        id == NewId("trips") IN
    /\ id \in TripIds
    /\ IF ExistingTrip(tenant_id, trip_number, None)
       THEN /\ Reply("create_trip", 400, "Trip number already exists for this tenant")
            /\ UNCHANGED dbvars
       ELSE /\ trips' = [t \in DOMAIN trips \cup {id} |->
                           IF t = id
                           THEN [tenant_id |-> tenant_id, trip_number |-> trip_number,
                                 status |-> "planning", locked_at |-> None,
                                 actual_departure |-> None, actual_arrival |-> None]
                           ELSE trips[t]]
            /\ made' = Made("trips")
            /\ Reply("create_trip", 200, "ok")
            /\ UNCHANGED <<shipments, pieces, expenses, invoices, payments, clock, documents, aside>>

\* update_dict without the rule of closed
TripUpdateDictUnstamped(trip, upd) ==
    [trip EXCEPT !.status = IF upd.status # Absent THEN upd.status ELSE @]

\* the fields update_trip writes: update_dict after the three status rules
TripUpdateDict(trip, upd) ==
    LET to_closed == upd.status = "closed" /\ trip.status # "closed"
        to_transit == upd.status = "in_transit" /\ trip.status # "in_transit"
                      /\ trip.actual_departure = None
        to_delivered == upd.status = "delivered" /\ trip.status # "delivered"
                        /\ trip.actual_arrival = None IN
    [trip_number |-> IF upd.trip_number # Absent THEN upd.trip_number ELSE trip.trip_number,
     status |-> IF upd.status # Absent THEN upd.status ELSE trip.status,
     locked_at |-> IF to_closed THEN Now ELSE trip.locked_at,
     actual_departure |-> IF to_transit THEN Now ELSE trip.actual_departure,
     actual_arrival |-> IF to_delivered THEN Now ELSE trip.actual_arrival,
     tenant_id |-> trip.tenant_id]

update_trip(user, trip_id, upd) ==
    LET tenant_id == user.tenant_id IN
    IF ~TripFound(trip_id, tenant_id)
    THEN Reply("update_trip", 404, "Trip not found") /\ UNCHANGED dbvars
    ELSE LET trip == trips[trip_id] IN
    IF trip.locked_at # None /\ user.role # "owner"
    THEN Reply("update_trip", 403, "Trip is locked. Only owner can modify.")
         /\ UNCHANGED dbvars
    ELSE IF /\ upd.trip_number # Absent
            /\ upd.trip_number # trip.trip_number
            /\ ExistingTrip(tenant_id, upd.trip_number, trip_id)
    THEN Reply("update_trip", 400, "Trip number already exists for this tenant")
         /\ UNCHANGED dbvars
    ELSE LET new == TripUpdateDict(trip, upd) IN
         /\ trips' = [trips EXCEPT ![trip_id] = new]
         /\ Reply("update_trip", 200, "ok")
         /\ UNCHANGED <<shipments, pieces, expenses, invoices, payments, made, clock, documents, aside>>

\* server.py keeps a handler of its own for PUT /trips/{trip_id}: the fields it
\* writes are update_dict after the one status rule it has, that of closed
ServerTripUpdateDict(trip, upd) ==
    LET to_closed == upd.status = "closed" /\ trip.status # "closed" IN
    [trip_number |-> IF upd.trip_number # Absent THEN upd.trip_number ELSE trip.trip_number,
     status |-> IF upd.status # Absent THEN upd.status ELSE trip.status,
     locked_at |-> IF to_closed THEN Now ELSE trip.locked_at,
     actual_departure |-> trip.actual_departure,
     actual_arrival |-> trip.actual_arrival,
     tenant_id |-> trip.tenant_id]

server_update_trip(user, trip_id, upd) ==
    LET tenant_id == user.tenant_id IN
    IF ~TripFound(trip_id, tenant_id)
    THEN Reply("server_update_trip", 404, "Trip not found") /\ UNCHANGED dbvars
    ELSE LET trip == trips[trip_id] IN
    IF trip.locked_at # None /\ user.role # "owner"
    THEN Reply("server_update_trip", 403, "Trip is locked. Only owner can modify.")
         /\ UNCHANGED dbvars
    ELSE IF /\ upd.trip_number # Absent
            /\ upd.trip_number # trip.trip_number
            /\ ExistingTrip(tenant_id, upd.trip_number, trip_id)
    THEN Reply("server_update_trip", 400, "Trip number already exists for this tenant")
         /\ UNCHANGED dbvars
    ELSE /\ trips' = [trips EXCEPT ![trip_id] = ServerTripUpdateDict(trip, upd)]
         /\ Reply("server_update_trip", 200, "ok")
         /\ UNCHANGED <<shipments, pieces, expenses, invoices, payments, made, clock, documents, aside>>

delete_trip(user, trip_id) ==
    LET tenant_id == user.tenant_id IN
    IF ~TripFound(trip_id, tenant_id)
    THEN Reply("delete_trip", 404, "Trip not found") /\ UNCHANGED dbvars
    ELSE IF trips[trip_id].locked_at # None /\ user.role # "owner"
    THEN Reply("delete_trip", 403, "Cannot delete locked trip") /\ UNCHANGED dbvars
    ELSE /\ shipments' = [s \in DOMAIN shipments |->
                            IF shipments[s].trip_id = trip_id /\ shipments[s].tenant_id = tenant_id
                            THEN [shipments[s] EXCEPT !.trip_id = None, !.status = "warehouse"]
                            ELSE shipments[s]]
         /\ expenses' = [e \in {x \in DOMAIN expenses : expenses[x].trip_id # trip_id} |-> expenses[e]]
         /\ trips' = [t \in DOMAIN trips \ {trip_id} |-> trips[t]]
         /\ Reply("delete_trip", 200, "Trip deleted")
         /\ UNCHANGED <<pieces, invoices, payments, made, clock, documents, aside>>

close_trip(user, trip_id) ==
    LET tenant_id == user.tenant_id IN
    IF user.role # "owner"
    THEN Reply("close_trip", 403, "Only owner can close trips") /\ UNCHANGED dbvars
    ELSE IF ~TripFound(trip_id, tenant_id)
    THEN Reply("close_trip", 404, "Trip not found") /\ UNCHANGED dbvars
    ELSE IF trips[trip_id].locked_at # None
    THEN Reply("close_trip", 400, "Trip is already closed") /\ UNCHANGED dbvars
    ELSE /\ trips' = [trips EXCEPT ![trip_id].status = "closed", ![trip_id].locked_at = Now]
         /\ Reply("close_trip", 200, "ok")
         /\ UNCHANGED <<shipments, pieces, expenses, invoices, payments, made, clock, documents, aside>>

\* ------------------------------------------------------------- shipments
Clients == [tA |-> {"c1"}]

create_shipment(user, client_id, trip_id) ==
    LET tenant_id == user.tenant_id
        id == NewId("shipments") IN
    /\ id \in ShipmentIds
    /\ IF client_id \notin Clients[tenant_id]
       THEN Reply("create_shipment", 404, "Client not found") /\ UNCHANGED dbvars
       ELSE /\ shipments' = [s \in DOMAIN shipments \cup {id} |->
                               IF s = id
                               THEN [tenant_id |-> tenant_id, client_id |-> client_id,
                                     trip_id |-> trip_id, status |-> "warehouse"]
                               ELSE shipments[s]]
            /\ made' = Made("shipments")
            /\ Reply("create_shipment", 200, "ok")
            /\ UNCHANGED <<trips, pieces, expenses, invoices, payments, clock, documents, aside>>

\* upd.trip_id = None and upd.status = Absent are the fields the request leaves out
update_shipment(user, shipment_id, upd) ==
    LET tenant_id == user.tenant_id
        found == shipment_id \in DOMAIN shipments /\ shipments[shipment_id].tenant_id = tenant_id IN
    IF upd.trip_id = None /\ upd.status = Absent
    THEN Reply("update_shipment", 200, "ok") /\ UNCHANGED dbvars
    ELSE IF ~found
    THEN Reply("update_shipment", 404, "Shipment not found") /\ UNCHANGED dbvars
    ELSE /\ shipments' = [shipments EXCEPT ![shipment_id] =
                 [@ EXCEPT !.trip_id = IF upd.trip_id # None THEN upd.trip_id ELSE @,
                           !.status = IF upd.status # Absent THEN upd.status ELSE @]]
         /\ Reply("update_shipment", 200, "ok")
         /\ UNCHANGED <<trips, pieces, expenses, invoices, payments, made, clock, documents, aside>>

create_shipment_piece(user, shipment_id, piece_number, random_digits) ==
    LET tenant_id == user.tenant_id
        id == NewId("pieces") IN
    /\ id \in PieceIds
    /\ IF ~(shipment_id \in DOMAIN shipments /\ shipments[shipment_id].tenant_id = tenant_id)
       THEN Reply("create_shipment_piece", 404, "Shipment not found") /\ UNCHANGED dbvars
       ELSE LET shipment == shipments[shipment_id]
                trip_number == IF shipment.trip_id # None /\ shipment.trip_id \in DOMAIN trips
                               THEN trips[shipment.trip_id].trip_number ELSE Absent
                shipment_count == CountShipments(shipments, tenant_id, shipment.trip_id)
                barcode == generate_barcode(trip_number, shipment_count, piece_number,
                                            random_digits) IN
            IF \E q \in DOMAIN pieces : pieces[q].barcode = barcode
            THEN Reply("create_shipment_piece", 500, "DuplicateKeyError")
                 /\ UNCHANGED dbvars
            ELSE /\ pieces' = [q \in DOMAIN pieces \cup {id} |->
                                 IF q = id
                                 THEN [shipment_id |-> shipment_id, piece_number |-> piece_number,
                                       barcode |-> barcode]
                                 ELSE pieces[q]]
                 /\ made' = Made("pieces")
                 /\ Reply("create_shipment_piece", 200, "ok")
                 /\ UNCHANGED <<trips, shipments, expenses, invoices, payments, clock, documents, aside>>

\* ------------------------------------------------------------- assignment
assign_shipment_to_trip(user, trip_id, shipment_id) ==
    LET tenant_id == user.tenant_id IN
    IF ~TripFound(trip_id, tenant_id)
    THEN Reply("assign_shipment_to_trip", 404, "Trip not found") /\ UNCHANGED dbvars
    ELSE IF trips[trip_id].locked_at # None
    THEN Reply("assign_shipment_to_trip", 403, "Cannot modify shipments on a locked trip")
         /\ UNCHANGED dbvars
    ELSE IF ~(shipment_id \in DOMAIN shipments /\ shipments[shipment_id].tenant_id = tenant_id)
    THEN Reply("assign_shipment_to_trip", 404, "Shipment not found") /\ UNCHANGED dbvars
    ELSE LET shps == [shipments EXCEPT ![shipment_id].trip_id = trip_id,
                                       ![shipment_id].status = "staged"]
             shipment_count == CountShipments(shps, tenant_id, trip_id)
             \* a trip has a trip number, so that generate_barcode draws nothing
             new == [p \in PiecesOf(shipment_id) |->
                        generate_barcode(trips[trip_id].trip_number, shipment_count,
                                         pieces[p].piece_number, <<>>)]
             w == WriteBarcodes(pieces, InOrder(PiecesOf(shipment_id)), new) IN
         /\ shipments' = shps
         /\ pieces' = w.pieces
         /\ IF w.ok THEN Reply("assign_shipment_to_trip", 200, "ok")
                    ELSE Reply("assign_shipment_to_trip", 500, "DuplicateKeyError")
         /\ UNCHANGED <<trips, expenses, invoices, payments, made, clock, documents, aside>>

unassign_shipment_from_trip(user, trip_id, shipment_id, random_digits) ==
    LET tenant_id == user.tenant_id IN
    IF ~TripFound(trip_id, tenant_id)
    THEN Reply("unassign_shipment_from_trip", 404, "Trip not found") /\ UNCHANGED dbvars
    ELSE IF trips[trip_id].locked_at # None
    THEN Reply("unassign_shipment_from_trip", 403, "Cannot modify shipments on a locked trip")
         /\ UNCHANGED dbvars
    ELSE IF ~(/\ shipment_id \in DOMAIN shipments
              /\ shipments[shipment_id].tenant_id = tenant_id
              /\ shipments[shipment_id].trip_id = trip_id)
    THEN Reply("unassign_shipment_from_trip", 404,
               "Shipment not found or not assigned to this trip") /\ UNCHANGED dbvars
    ELSE LET new == [p \in PiecesOf(shipment_id) |->
                        generate_barcode(Absent, 0, pieces[p].piece_number, random_digits[p])]
             w == WriteBarcodes(pieces, InOrder(PiecesOf(shipment_id)), new) IN
         /\ shipments' = [shipments EXCEPT ![shipment_id].trip_id = None,
                                           ![shipment_id].status = "warehouse"]
         /\ pieces' = w.pieces
         /\ IF w.ok THEN Reply("unassign_shipment_from_trip", 200, "ok")
                    ELSE Reply("unassign_shipment_from_trip", 500, "DuplicateKeyError")
         /\ UNCHANGED <<trips, expenses, invoices, payments, made, clock, documents, aside>>

remove_parcel_from_trip(user, trip_id, parcel_id, random_hex) ==
    LET tenant_id == user.tenant_id IN
    IF ~TripFound(trip_id, tenant_id)
    THEN Reply("remove_parcel_from_trip", 404, "Trip not found") /\ UNCHANGED dbvars
    ELSE IF trips[trip_id].locked_at # None
    THEN Reply("remove_parcel_from_trip", 403, "Cannot modify closed trip")
         /\ UNCHANGED dbvars
    ELSE IF ~(parcel_id \in DOMAIN shipments /\ shipments[parcel_id].trip_id = trip_id)
    THEN Reply("remove_parcel_from_trip", 404, "Parcel not found on this trip")
         /\ UNCHANGED dbvars
    ELSE LET new == [p \in PiecesOf(parcel_id) |-> generate_barcode_temp(random_hex[p])]
             w == WriteBarcodes(pieces, InOrder(PiecesOf(parcel_id)), new) IN
         /\ shipments' = [shipments EXCEPT ![parcel_id].trip_id = None,
                                           ![parcel_id].status = "warehouse"]
         /\ pieces' = w.pieces
         /\ IF w.ok THEN Reply("remove_parcel_from_trip", 200, "ok")
                    ELSE Reply("remove_parcel_from_trip", 500, "DuplicateKeyError")
         /\ UNCHANGED <<trips, expenses, invoices, payments, made, clock, documents, aside>>

\* ------------------------------------------------------------- expenses
create_trip_expense(user, trip_id, amount) ==
    LET tenant_id == user.tenant_id
        id == NewId("expenses") IN
    /\ id \in ExpenseIds
    /\ IF ~TripFound(trip_id, tenant_id)
       THEN Reply("create_trip_expense", 404, "Trip not found") /\ UNCHANGED dbvars
       ELSE /\ expenses' = [e \in DOMAIN expenses \cup {id} |->
                              IF e = id THEN [trip_id |-> trip_id, amount |-> amount]
                              ELSE expenses[e]]
            /\ made' = Made("expenses")
            /\ Reply("create_trip_expense", 200, "ok")
            /\ UNCHANGED <<trips, shipments, pieces, invoices, payments, clock, documents, aside>>

\* amount = None is the field the request leaves out
update_trip_expense(user, trip_id, expense_id, amount) ==
    LET tenant_id == user.tenant_id IN
    IF ~TripFound(trip_id, tenant_id)
    THEN Reply("update_trip_expense", 404, "Trip not found") /\ UNCHANGED dbvars
    ELSE IF trips[trip_id].locked_at # None /\ user.role # "owner"
    THEN Reply("update_trip_expense", 403, "Trip is locked. Only owner can edit expenses.")
         /\ UNCHANGED dbvars
    ELSE IF amount = None
    THEN Reply("update_trip_expense", 200, "ok") /\ UNCHANGED dbvars
    ELSE IF ~(expense_id \in DOMAIN expenses /\ expenses[expense_id].trip_id = trip_id)
    THEN Reply("update_trip_expense", 404, "Expense not found") /\ UNCHANGED dbvars
    ELSE /\ expenses' = [expenses EXCEPT ![expense_id].amount = amount]
         /\ Reply("update_trip_expense", 200, "ok")
         /\ UNCHANGED <<trips, shipments, pieces, invoices, payments, made, clock, documents, aside>>

delete_trip_expense(user, trip_id, expense_id) ==
    LET tenant_id == user.tenant_id IN
    IF ~TripFound(trip_id, tenant_id)
    THEN Reply("delete_trip_expense", 404, "Trip not found") /\ UNCHANGED dbvars
    ELSE IF trips[trip_id].locked_at # None /\ user.role # "owner"
    THEN Reply("delete_trip_expense", 403, "Trip is locked. Only owner can delete expenses.")
         /\ UNCHANGED dbvars
    ELSE IF ~(expense_id \in DOMAIN expenses /\ expenses[expense_id].trip_id = trip_id)
    THEN Reply("delete_trip_expense", 404, "Expense not found") /\ UNCHANGED dbvars
    ELSE /\ expenses' = [e \in DOMAIN expenses \ {expense_id} |-> expenses[e]]
         /\ Reply("delete_trip_expense", 200, "Expense deleted")
         /\ UNCHANGED <<trips, shipments, pieces, invoices, payments, made, clock, documents, aside>>

\* ------------------------------------------------------------- invoices
\* the invoice ids the model follows
InvoiceIds == {1}

\* client.get("payment_terms_days", 30) of the clients on file
payment_terms_days == [c1 |-> 0]

\* calculate_due_date: today + payment terms, dates ordered as the days they name
calculate_due_date(terms) == Now + terms

InvoiceFound(invoice_id, tenant_id) ==
    invoice_id \in DOMAIN invoices /\ invoices[invoice_id].tenant_id = tenant_id

\* sorted(key=str): the order of two strings of digits, character by character
RECURSIVE StrLess(_, _)
StrLess(a, b) ==
    IF a = <<>> THEN b # <<>>
    ELSE IF b = <<>> THEN FALSE
    ELSE IF Head(a) # Head(b) THEN Head(a) < Head(b)
    ELSE StrLess(Tail(a), Tail(b))

\* int(s) of a string of digits
RECURSIVE IntOf(_)
IntOf(ds) == IF ds = <<>> THEN 0 ELSE IntOf(SubSeq(ds, 1, Len(ds) - 1)) * 10 + ds[Len(ds)]

\* the numbers of the tenant's invoices; a number `INV-<year>-<seq>` is kept
\* as the digits of its <seq>, the year being the same for all of them
NumbersOf(invs, tenant_id) ==
    {invs[i].invoice_number : i \in {j \in DOMAIN invs : invs[j].tenant_id = tenant_id}}

\* generate_invoice_number: find_one sorted by invoice_number, descending,
\* then int(its last part) + 1 as `INV-<year>-<seq:03d>`
generate_invoice_number(tenant_id) ==
    LET nums == NumbersOf(invoices, tenant_id) IN
    IF nums = {} THEN Fmt(1, 3)
    ELSE Fmt(IntOf(CHOOSE n \in nums : \A m \in nums : m = n \/ StrLess(m, n)) + 1, 3)

\* the unique index on invoices (tenant_id, invoice_number): an insert of a
\* number the tenant already holds raises DuplicateKeyError
DuplicateKey(invs, tenant_id, invoice_number) ==
    invoice_number \in NumbersOf(invs, tenant_id)

create_invoice(user, client_id, subtotal, adjustments) ==
    LET tenant_id == user.tenant_id
        id == NewId("invoices")
        invoice_number == generate_invoice_number(tenant_id) IN
    IF client_id \notin Clients[tenant_id]
    THEN Reply("create_invoice", 404, "Client not found") /\ UNCHANGED dbvars
    ELSE IF DuplicateKey(invoices, tenant_id, invoice_number)
    THEN Reply("create_invoice", 500, "DuplicateKeyError") /\ UNCHANGED dbvars
    ELSE /\ invoices' = [i \in DOMAIN invoices \cup {id} |->
                           IF i = id
                           THEN [tenant_id |-> tenant_id, client_id |-> client_id,
                                 invoice_number |-> invoice_number,
                                 subtotal |-> subtotal, adjustments |-> adjustments,
                                 total |-> subtotal + adjustments, status |-> "draft",
                                 sent_at |-> None, paid_at |-> None,
                                 due_date |-> calculate_due_date(payment_terms_days[client_id])]
                           ELSE invoices[i]]
         /\ made' = Made("invoices")
         /\ Reply("create_invoice", 200, "ok")
         /\ UNCHANGED <<trips, shipments, pieces, expenses, payments, clock, documents, aside>>

\* upd.status = Absent, upd.subtotal = None, upd.adjustments = None are the
\* fields the request leaves out; invoice["adjustments"] is read whatever the
\* request holds, and raises KeyError on an invoice stored without the field
update_invoice(user, invoice_id, upd) ==
    LET tenant_id == user.tenant_id IN
    IF ~InvoiceFound(invoice_id, tenant_id)
    THEN Reply("update_invoice", 404, "Invoice not found") /\ UNCHANGED dbvars
    ELSE IF "adjustments" \notin DOMAIN invoices[invoice_id]
    THEN Reply("update_invoice", 500, "KeyError") /\ UNCHANGED dbvars
    ELSE LET invoice == invoices[invoice_id]
             subtotal == IF upd.subtotal # None THEN upd.subtotal ELSE invoice.subtotal
             adjustments == IF upd.adjustments # None THEN upd.adjustments
                            ELSE invoice.adjustments
             to_sent == upd.status = "sent" /\ invoice.status = "draft"
             to_paid == ~to_sent /\ upd.status = "paid" /\ invoice.status # "paid" IN
         /\ invoices' = [invoices EXCEPT ![invoice_id] =
                 [@ EXCEPT !.status = IF upd.status # Absent THEN upd.status ELSE @,
                           !.subtotal = subtotal,
                           !.adjustments = adjustments,
                           !.total = subtotal + adjustments,
                           !.sent_at = IF to_sent THEN Now ELSE @,
                           !.paid_at = IF to_paid THEN Now ELSE @]]
         /\ Reply("update_invoice", 200, "ok")
         /\ UNCHANGED <<trips, shipments, pieces, expenses, payments, made, clock, documents, aside>>

\* sum(p["amount"] for p in payments)
RECURSIVE SumAmounts(_, _)
SumAmounts(pays, ids) ==
    IF ids = {} THEN 0
    ELSE LET lo == CHOOSE x \in ids : \A y \in ids : x <= y
             hi == CHOOSE x \in ids : \A y \in ids : y <= x
             mid == (lo + hi) \div 2 IN
         IF lo = hi THEN pays[lo].amount
         ELSE SumAmounts(pays, {x \in ids : x <= mid}) + SumAmounts(pays, {x \in ids : x > mid})

\* the "Check overdue" step of get_invoice and list_invoices
IsOverdueSentOnly(invoice) == invoice.status = "sent" /\ invoice.due_date < Now
IsOverdue(invoice) == invoice.status \notin {"paid", "overdue"} /\ invoice.due_date < Now

\* find(query).sort("created_at", -1).to_list(500): the length the invoice list is cut to
InvoiceListLimit == 500

\* cursor.sort("created_at", -1).to_list(length): the `length` newest documents found
RECURSIVE to_list_newest(_, _)
to_list_newest(found, length) ==
    IF Cardinality(found) <= length THEN found
    ELSE to_list_newest(found \ {CHOOSE x \in found : \A y \in found : x <= y}, length)

\* status = Absent and client_id = Absent are the filters the request leaves
\* out; the answer gives, for every invoice listed, the status it reports
list_invoices(user, status, client_id) ==
    LET tenant_id == user.tenant_id
        query == {i \in DOMAIN invoices :
                     /\ invoices[i].tenant_id = tenant_id
                     /\ (status # Absent /\ status # "all") => invoices[i].status = status
                     /\ client_id # Absent => invoices[i].client_id = client_id}
        found == to_list_newest(query, InvoiceListLimit)
        after == [i \in DOMAIN invoices |->
                     IF i \in found /\ IsOverdue(invoices[i])
                     THEN [invoices[i] EXCEPT !.status = "overdue"]
                     ELSE invoices[i]] IN
    /\ invoices' = after
    /\ Reply("list_invoices", 200, [i \in found |-> after[i].status])
    /\ UNCHANGED <<trips, shipments, pieces, expenses, payments, made, clock, documents, aside>>

get_invoice(user, invoice_id) ==
    LET tenant_id == user.tenant_id IN
    IF ~InvoiceFound(invoice_id, tenant_id)
    THEN Reply("get_invoice", 404, "Invoice not found") /\ UNCHANGED dbvars
    ELSE /\ invoices' = IF IsOverdue(invoices[invoice_id])
                        THEN [invoices EXCEPT ![invoice_id].status = "overdue"]
                        ELSE invoices
         \* the answer is the invoice, here its id, the status it reports and
         \* balance_due, its total less the payments read with to_list(100)
         /\ Reply("get_invoice", 200,
                  [id |-> invoice_id, status |-> invoices'[invoice_id].status,
                   balance_due |-> invoices[invoice_id].total
                                   - SumAmounts(payments,
                                         to_list({p \in DOMAIN payments :
                                                     /\ payments[p].invoice_id = invoice_id
                                                     /\ payments[p].tenant_id = tenant_id},
                                                 ListLimit))])
         /\ UNCHANGED <<trips, shipments, pieces, expenses, payments, made, clock, documents, aside>>

\* ------------------------------------------------------------- payments
\* payments = db.payments.find({"invoice_id": invoice_id}).to_list(100)
\* total_paid = sum(p["amount"] for p in payments)
TotalPaid(pays, invoice_id) ==
    SumAmounts(pays, to_list({p \in DOMAIN pays : pays[p].invoice_id = invoice_id}, ListLimit))

\* if total_paid >= invoice["total"]
FullyPaid(total_paid, total) == total_paid >= total

\* invoice_id = None is a payment allocated to no invoice
create_payment(user, client_id, invoice_id, amount) ==
    LET tenant_id == user.tenant_id
        id == NewId("payments") IN
    /\ IF client_id \notin Clients[tenant_id]
       THEN Reply("create_payment", 404, "Client not found") /\ UNCHANGED dbvars
       ELSE IF invoice_id # None /\ ~InvoiceFound(invoice_id, tenant_id)
       THEN Reply("create_payment", 404, "Invoice not found") /\ UNCHANGED dbvars
       ELSE LET pays == [p \in DOMAIN payments \cup {id} |->
                           IF p = id
                           THEN [tenant_id |-> tenant_id, client_id |-> client_id,
                                 invoice_id |-> invoice_id, amount |-> amount]
                           ELSE payments[p]] IN
            /\ payments' = pays
            /\ made' = Made("payments")
            /\ invoices' = IF invoice_id # None
                              /\ FullyPaid(TotalPaid(pays, invoice_id), invoices[invoice_id].total)
                           THEN [invoices EXCEPT ![invoice_id].status = "paid",
                                                 ![invoice_id].paid_at = Now]
                           ELSE invoices
            /\ Reply("create_payment", 200, "ok")
            /\ UNCHANGED <<trips, shipments, pieces, expenses, clock, documents, aside>>

delete_payment(user, payment_id) ==
    LET tenant_id == user.tenant_id IN
    IF user.role \notin {"owner", "finance"}
    THEN Reply("delete_payment", 403, "Only owner/finance can delete payments")
         /\ UNCHANGED dbvars
    ELSE IF ~(payment_id \in DOMAIN payments /\ payments[payment_id].tenant_id = tenant_id)
    THEN Reply("delete_payment", 404, "Payment not found") /\ UNCHANGED dbvars
    ELSE LET invoice_id == payments[payment_id].invoice_id
             pays == [p \in DOMAIN payments \ {payment_id} |-> payments[p]] IN
         /\ payments' = pays
         /\ invoices' = IF /\ invoice_id # None
                           /\ invoice_id \in DOMAIN invoices
                           /\ invoices[invoice_id].status = "paid"
                           /\ TotalPaid(pays, invoice_id) < invoices[invoice_id].total
                        THEN [invoices EXCEPT
                                ![invoice_id].status =
                                    IF invoices[invoice_id].due_date < Now THEN "overdue" ELSE "sent",
                                ![invoice_id].paid_at = None]
                        ELSE invoices
         /\ Reply("delete_payment", 200, "Payment deleted")
         /\ UNCHANGED <<trips, shipments, pieces, expenses, made, clock, documents, aside>>

\* ------------------------------------------------------------- trip documents
upload_trip_document(user, trip_id) ==
    LET tenant_id == user.tenant_id
        id == NewId("documents") IN
    IF ~TripFound(trip_id, tenant_id)
    THEN Reply("upload_trip_document", 404, "Trip not found") /\ UNCHANGED dbvars
    ELSE /\ documents' = [d \in DOMAIN documents \cup {id} |->
                            IF d = id THEN [trip_id |-> trip_id, uploaded_by |-> user]
                            ELSE documents[d]]
         /\ made' = Made("documents")
         /\ Reply("upload_trip_document", 200, "Document uploaded successfully")
         /\ UNCHANGED <<trips, shipments, pieces, expenses, invoices, payments, clock, aside>>

delete_trip_document(user, trip_id, doc_id) ==
    LET tenant_id == user.tenant_id IN
    IF ~TripFound(trip_id, tenant_id)
    THEN Reply("delete_trip_document", 404, "Trip not found") /\ UNCHANGED dbvars
    ELSE IF ~(doc_id \in DOMAIN documents /\ documents[doc_id].trip_id = trip_id)
    THEN Reply("delete_trip_document", 404, "Document not found") /\ UNCHANGED dbvars
    ELSE /\ documents' = [d \in DOMAIN documents \ {doc_id} |-> documents[d]]
         /\ Reply("delete_trip_document", 200, "Document deleted")
         /\ UNCHANGED <<trips, shipments, pieces, expenses, invoices, payments, made, clock, aside>>

\* the answer holds the document's file: the detail is the document read
download_trip_document(user, trip_id, doc_id) ==
    IF ~(doc_id \in DOMAIN documents /\ documents[doc_id].trip_id = trip_id)
    THEN Reply("download_trip_document", 404, "Document not found") /\ UNCHANGED dbvars
    ELSE Reply("download_trip_document", 200, "file_data") /\ UNCHANGED dbvars

\* ------------------------------------------------------------- sessions
\* expires_at = now + timedelta(days=7) of create_session
SessionDays == 7

\* the users on file
users == [u1 |-> [tenant_id |-> "tA", role |-> "owner"]]

\* the sessions on file, as create_session stores them: one made today, one
\* that runs out today, one of a user who is no longer on file
user_sessions ==
    [live |-> [user_id |-> "u1", expires_at |-> 1 + SessionDays],
     stale |-> [user_id |-> "u1", expires_at |-> 1],
     orphan |-> [user_id |-> "u0", expires_at |-> 1 + SessionDays]]

\* the session tokens a request may bring, "" for none and "forged" for one
\* no session has
SessionTokens == {"", "live", "stale", "orphan", "forged"}

\* a request: its session_token cookie, "" when it has none, and its
\* Authorization header split at the blanks, <<>> when it has none
Requests ==
    [cookie : SessionTokens,
     authorization : {<<>>} \cup {<<scheme, token>> : scheme \in {"Bearer", "Basic"},
                                                     token \in {"", "live", "stale"}}]

\* get_current_user without the check of expires_at
get_current_user_unexpiring(request) ==
    LET auth_header == request.authorization
        session_token ==
            IF request.cookie # "" THEN request.cookie
            ELSE IF auth_header # <<>> /\ auth_header[1] = "Bearer" THEN auth_header[2]
            ELSE "" IN
    IF session_token = "" THEN [code |-> 401, detail |-> "Not authenticated"]
    ELSE IF session_token \notin DOMAIN user_sessions
    THEN [code |-> 401, detail |-> "Invalid session"]
    ELSE IF user_sessions[session_token].user_id \notin DOMAIN users
    THEN [code |-> 401, detail |-> "User not found"]
    ELSE [code |-> 200, detail |-> users[user_sessions[session_token].user_id]]
\* get_current_user: the user of the request, or the 401 it is refused with
get_current_user(request) ==
    LET auth_header == request.authorization
        session_token ==
            IF request.cookie # "" THEN request.cookie
            ELSE IF auth_header # <<>> /\ auth_header[1] = "Bearer" THEN auth_header[2]
            ELSE "" IN
    IF session_token = "" THEN [code |-> 401, detail |-> "Not authenticated"]
    ELSE IF session_token \notin DOMAIN user_sessions
    THEN [code |-> 401, detail |-> "Invalid session"]
    ELSE IF user_sessions[session_token].expires_at < Now
    THEN [code |-> 401, detail |-> "Session expired"]
    ELSE IF user_sessions[session_token].user_id \notin DOMAIN users
    THEN [code |-> 401, detail |-> "User not found"]
    ELSE [code |-> 200, detail |-> users[user_sessions[session_token].user_id]]

\* Depends(get_current_user), Depends(get_tenant_id): the dependencies of a
\* route are resolved before its handler is called; when one of them raises,
\* the answer is what it raised and the handler is not called
Refuse(op, auth) == Reply(op, auth.code, auth.detail) /\ UNCHANGED dbvars

\* GET /auth/me
get_current_user_info(user) ==
    Reply("get_current_user_info", 200, user) /\ UNCHANGED dbvars

\* GET /shipments: the answer is the list of the tenant's shipments
list_shipments(user) ==
    /\ Reply("list_shipments", 200,
             [x \in {y \in DOMAIN shipments : shipments[y].tenant_id = user.tenant_id} |->
                 shipments[x]])
    /\ UNCHANGED dbvars

\* the routes with their dependencies
GET_auth_me(request) ==
    LET auth == get_current_user(request) IN
    IF auth.code # 200 THEN Refuse("get_current_user_info", auth)
    ELSE get_current_user_info(auth.detail)

GET_shipments(request) ==
    LET auth == get_current_user(request) IN
    IF auth.code # 200 THEN Refuse("list_shipments", auth)
    ELSE list_shipments(auth.detail)

POST_shipments(request, client_id, trip_id) ==
    LET auth == get_current_user(request) IN
    IF auth.code # 200 THEN Refuse("create_shipment", auth)
    ELSE create_shipment(auth.detail, client_id, trip_id)

PUT_shipments(request, shipment_id, upd) ==
    LET auth == get_current_user(request) IN
    IF auth.code # 200 THEN Refuse("update_shipment", auth)
    ELSE update_shipment(auth.detail, shipment_id, upd)

\* ------------------------------------------------------------- time
\* a day passes
tick ==
    /\ clock < MaxClock
    /\ clock' = clock + 1
    /\ Reply("tick", 200, "ok")
    /\ UNCHANGED <<trips, shipments, pieces, expenses, invoices, payments, made, documents, aside>>

\* ------------------------------------------------------------- invoice generation
\* Money is counted in cents and a shipment's total_weight in tenths of a kg.

\* db.shipments.find({"trip_id": trip_id, "tenant_id": tenant_id}).to_list(500)
TripParcelLimit == 500

\* rate.get("rate_per_kg", 50) if rate else 50
FallbackRate == 50

\* vat = subtotal * 0.15
VatPercent == 15

\* due_date = now + timedelta(days=30)
InvoiceTermDays == 30

\* the rate records on file, as create_client_rate stores them: the fields of
\* ClientRate, the rate under the key rate_value
client_rates == <<[client_id |-> "c2", rate_type |-> "per_kg", rate_value |-> 80]>>

\* db.client_rates.find_one({"client_id": client_id}): the records found,
\* cut to the first, none when the client has no rate record
FindRate(client_id) ==
    LET found == SelectSeq(client_rates, LAMBDA r : r.client_id = client_id) IN
    IF found = <<>> THEN <<>> ELSE <<Head(found)>>

\* rate.get("rate_per_kg", 50) if rate else 50
RatePerKg(rate) ==
    IF rate = <<>> THEN FallbackRate
    ELSE IF "rate_per_kg" \in DOMAIN rate[1] THEN rate[1].rate_per_kg
    ELSE FallbackRate

\* round(num / den, 2) in cents, a tie going to the even cent
Round2(num, den) ==
    LET q == (num * 100) \div den
        r == (num * 100) % den IN
    IF 2 * r < den THEN q
    ELSE IF 2 * r > den THEN q + 1
    ELSE IF q % 2 = 0 THEN q ELSE q + 1

\* sum(s.get("total_weight", 0) or 0 for s in client_shipments)
RECURSIVE SumWeights(_)
SumWeights(ids) ==
    IF ids = {} THEN 0
    ELSE LET s == CHOOSE x \in ids : TRUE
             w == IF "total_weight" \in DOMAIN shipments[s] THEN shipments[s].total_weight ELSE 0 IN
         w + SumWeights(ids \ {s})

\* the parcels of the trip, as the handler reads them
ParcelsOf(trip_id, tenant_id) ==
    to_list({s \in DOMAIN shipments :
                shipments[s].trip_id = trip_id /\ shipments[s].tenant_id = tenant_id},
            TripParcelLimit)

\* the keys of client_parcels, in the order the parcels bring them up
RECURSIVE GroupKeys(_, _)
GroupKeys(ps, seen) ==
    IF ps = <<>> THEN seen
    ELSE LET parcel == shipments[Head(ps)] IN
         GroupKeys(Tail(ps),
                   IF \/ "client_id" \notin DOMAIN parcel
                      \/ \E k \in 1..Len(seen) : seen[k] = parcel.client_id
                   THEN seen
                   ELSE Append(seen, parcel.client_id))

\* find_one({"tenant_id", "client_id", "shipment_ids": {"$all": shipment_ids}})
ExistingInvoice(invs, tenant_id, client_id, shipment_ids) ==
    \E i \in DOMAIN invs :
        /\ invs[i].tenant_id = tenant_id
        /\ invs[i].client_id = client_id
        /\ "shipment_ids" \in DOMAIN invs[i]
        /\ shipment_ids \subseteq invs[i].shipment_ids

\* f"INV-{year}-{str(count + 1).zfill(4)}", count the tenant's invoices on file
CountInvoiceNumber(invs, tenant_id) ==
    Fmt(Cardinality({i \in DOMAIN invs : invs[i].tenant_id = tenant_id}) + 1, 4)

\* the invoice document of one client group
GeneratedInvoice(tenant_id, client_id, trip_id, shipment_ids, invoice_number) ==
    LET total_weight == SumWeights(shipment_ids)
        rate_per_kg == RatePerKg(FindRate(client_id)) IN
    [tenant_id |-> tenant_id, client_id |-> client_id,
     invoice_number |-> invoice_number,
     shipment_ids |-> shipment_ids, trip_id |-> trip_id,
     subtotal |-> Round2(total_weight * rate_per_kg, 10),
     vat |-> Round2(total_weight * rate_per_kg * VatPercent, 1000),
     total |-> Round2(total_weight * rate_per_kg * (100 + VatPercent), 1000),
     status |-> "draft",
     due_date |-> Now + InvoiceTermDays]

\* The loop  for client_id, client_shipments in client_parcels.items()  under
\* the unique index on invoices (tenant_id, invoice_number): the first insert
\* of a number the tenant already holds raises DuplicateKeyError and ends the
\* handler, the invoices inserted before it kept.
RECURSIVE GenerateLoop(_, _, _, _, _, _)
GenerateLoop(invs, keys, parcels, created, tenant_id, trip_id) ==
    IF keys = <<>> THEN [invoices |-> invs, created |-> created, error |-> FALSE]
    ELSE LET client_id == Head(keys)
             shipment_ids == {s \in parcels : /\ "client_id" \in DOMAIN shipments[s]
                                               /\ shipments[s].client_id = client_id}
             invoice_number == CountInvoiceNumber(invs, tenant_id)
             id == made.invoices + created + 1 IN
         IF ExistingInvoice(invs, tenant_id, client_id, shipment_ids)
         THEN GenerateLoop(invs, Tail(keys), parcels, created, tenant_id, trip_id)
         ELSE IF DuplicateKey(invs, tenant_id, invoice_number)
         THEN [invoices |-> invs, created |-> created, error |-> TRUE]
         ELSE GenerateLoop([i \in DOMAIN invs \cup {id} |->
                               IF i = id
                               THEN GeneratedInvoice(tenant_id, client_id, trip_id,
                                                     shipment_ids, invoice_number)
                               ELSE invs[i]],
                           Tail(keys), parcels, created + 1, tenant_id, trip_id)

generate_trip_invoices(user, trip_id) ==
    LET tenant_id == user.tenant_id IN
    IF ~TripFound(trip_id, tenant_id)
    THEN Reply("generate_trip_invoices", 404, "Trip not found") /\ UNCHANGED dbvars
    ELSE LET parcels == ParcelsOf(trip_id, tenant_id)
             out == GenerateLoop(invoices, GroupKeys(InOrder(parcels), <<>>), parcels, 0,
                                 tenant_id, trip_id) IN
         /\ invoices' = out.invoices
         /\ made' = [made EXCEPT !.invoices = @ + out.created]
         /\ Reply("generate_trip_invoices", IF out.error THEN 500 ELSE 200,
                  [trip_id |-> trip_id, created |-> out.created])
         /\ UNCHANGED <<trips, shipments, pieces, expenses, payments, clock, documents, aside>>

delete_invoice(user, invoice_id) ==
    LET tenant_id == user.tenant_id IN
    IF ~InvoiceFound(invoice_id, tenant_id)
    THEN Reply("delete_invoice", 404, "Invoice not found") /\ UNCHANGED dbvars
    ELSE IF invoices[invoice_id].status # "draft" /\ user.role # "owner"
    THEN Reply("delete_invoice", 403, "Only owner can delete non-draft invoices")
         /\ UNCHANGED dbvars
    ELSE /\ invoice_line_items' = [x \in {y \in DOMAIN invoice_line_items :
                                              invoice_line_items[y].invoice_id # invoice_id}
                                    |-> invoice_line_items[x]]
         /\ invoices' = [i \in DOMAIN invoices \ {invoice_id} |-> invoices[i]]
         /\ Reply("delete_invoice", 200, "Invoice deleted")
         /\ UNCHANGED <<trips, shipments, pieces, expenses, payments, made, clock, documents,
                        vehicle_compliance, driver_compliance, calls>>

\* ------------------------------------------------------------- specifications
Empty == [x \in {} |-> None]

NoTrip == [tenant_id |-> "tA", trip_number |-> "S1", status |-> "planning", locked_at |-> None,
           actual_departure |-> None, actual_arrival |-> None]
NoShipment == [tenant_id |-> "tA", client_id |-> "c1", trip_id |-> None, status |-> "warehouse"]

\* An empty store.
Init ==
    /\ trips = Empty
    /\ shipments = Empty
    /\ pieces = Empty
    /\ expenses = Empty
    /\ invoices = Empty
    /\ payments = Empty
    /\ documents = Empty
    /\ vehicle_compliance = Empty /\ driver_compliance = Empty /\ calls = Empty
    /\ invoice_line_items = Empty
    /\ made = [trips |-> 0, shipments |-> 0, pieces |-> 0, expenses |-> 0,
               invoices |-> 0, payments |-> 0, documents |-> 0,
               line_items |-> 0]
    /\ clock = 1
    /\ resp = [op |-> "init", code |-> 200, detail |-> "ok"]

\* A store after create_trip S1, create_trip S2, create_shipment and
\* create_shipment_piece: two trips in planning, one shipment in the
\* warehouse with one piece.
InitLock ==
    /\ trips = [t \in {1, 2} |-> [NoTrip EXCEPT !.trip_number = IF t = 1 THEN "S1" ELSE "S2"]]
    /\ shipments = [s \in {1} |-> NoShipment]
    /\ pieces = [p \in {1} |-> [shipment_id |-> 1, piece_number |-> 1,
                                barcode |-> generate_barcode_temp(ZeroPad(<<0>>, 6))]]
    /\ expenses = Empty
    /\ invoices = Empty
    /\ payments = Empty
    /\ documents = Empty
    /\ vehicle_compliance = Empty /\ driver_compliance = Empty /\ calls = Empty
    /\ invoice_line_items = Empty
    /\ made = [trips |-> 2, shipments |-> 1, pieces |-> 1, expenses |-> 0,
               invoices |-> 0, payments |-> 0, documents |-> 0,
               line_items |-> 0]
    /\ clock = 1
    /\ resp = [op |-> "init", code |-> 200, detail |-> "ok"]

\* the requests of the trip lock: trip status, expenses, assignment
LockTripUpdates == [trip_number : {Absent}, status : {"planning", "closed"}]
LockShipmentUpdates == [trip_id : TripIds, status : {Absent}]

LockRequest(u) ==
    \/ \E t \in TripIds, upd \in LockTripUpdates : update_trip(u, t, upd)
    \/ \E t \in TripIds : delete_trip(u, t)
    \/ \E t \in TripIds : close_trip(u, t)
    \/ \E s \in ShipmentIds, upd \in LockShipmentUpdates : update_shipment(u, s, upd)
    \/ \E t \in TripIds, s \in ShipmentIds : assign_shipment_to_trip(u, t, s)
    \/ \E t \in TripIds, s \in ShipmentIds : \E d \in [PiecesOf(s) -> RandomDigits] :
          unassign_shipment_from_trip(u, t, s, d)
    \/ \E t \in TripIds, s \in ShipmentIds : \E d \in [PiecesOf(s) -> RandomHex] :
          remove_parcel_from_trip(u, t, s, d)
    \/ \E t \in TripIds, a \in ExpenseAmounts : create_trip_expense(u, t, a)
    \/ \E t \in TripIds, e \in ExpenseIds, a \in ExpenseAmounts : update_trip_expense(u, t, e, a)
    \/ \E t \in TripIds, e \in ExpenseIds : delete_trip_expense(u, t, e)

Next == (\E u \in Users : LockRequest(u)) \/ tick

Spec == InitLock /\ [][Next]_vars

\* the requests of the payment side: invoices and the payment ledger
InvoiceUpdates == [status : {"sent", "paid"}, subtotal : {None}, adjustments : {None}]

InvoiceFilters == {Absent, "sent"}

NextPay ==
    \/ \E u \in Users : \E c \in Clients[u.tenant_id], a \in Amounts :
          NewId("invoices") \in InvoiceIds /\ create_invoice(u, c, a, 0)
    \/ \E u \in Users, i \in InvoiceIds, upd \in InvoiceUpdates : update_invoice(u, i, upd)
    \/ \E u \in Users, i \in InvoiceIds : get_invoice(u, i)
    \/ \E u \in Users, st \in InvoiceFilters : list_invoices(u, st, Absent)
    \/ \E u \in Users : \E c \in Clients[u.tenant_id], i \in InvoiceIds \cup {None}, a \in Amounts :
          made.payments < MaxPayments /\ create_payment(u, c, i, a)
    \/ \E u \in Users, p \in PaymentIds : delete_payment(u, p)
    \/ tick

SpecPay == Init /\ [][NextPay]_vars

\* the requests that write or read an invoice's status, as the days pass
NextOverdue ==
    \/ \E u \in Users : \E c \in Clients[u.tenant_id], a \in Amounts :
          NewId("invoices") \in InvoiceIds /\ create_invoice(u, c, a, 0)
    \/ \E u \in Users, i \in InvoiceIds, upd \in InvoiceUpdates : update_invoice(u, i, upd)
    \/ \E u \in Users, i \in InvoiceIds : get_invoice(u, i)
    \/ \E u \in Users, st \in InvoiceFilters : list_invoices(u, st, Absent)
    \/ tick

SpecOverdue == Init /\ [][NextOverdue]_vars

\* A store after create_invoice with a subtotal of ListLimit + 1: one draft
\* invoice, no payment yet.
InitLedger ==
    /\ clock = 1
    /\ trips = Empty
    /\ shipments = Empty
    /\ pieces = Empty
    /\ expenses = Empty
    /\ invoices = [i \in {1} |->
                     [tenant_id |-> "tA", client_id |-> "c1", invoice_number |-> Fmt(1, 3),
                      subtotal |-> ListLimit + 1, adjustments |-> 0, total |-> ListLimit + 1,
                      status |-> "draft", sent_at |-> None, paid_at |-> None,
                      due_date |-> calculate_due_date(payment_terms_days["c1"])]]
    /\ payments = Empty
    /\ documents = Empty
    /\ vehicle_compliance = Empty /\ driver_compliance = Empty /\ calls = Empty
    /\ invoice_line_items = Empty
    /\ made = [trips |-> 0, shipments |-> 0, pieces |-> 0, expenses |-> 0,
               invoices |-> 1, payments |-> 0, documents |-> 0,
               line_items |-> 0]
    /\ resp = [op |-> "init", code |-> 200, detail |-> "ok"]

\* the invoice is paid off in instalments of 1, one more of them than a list holds
NextLedger ==
    \E u \in Users : made.payments <= ListLimit /\ create_payment(u, "c1", 1, 1)

SpecLedger == InitLedger /\ [][NextLedger]_vars

\* the invoice is paid in full by its first payment, instalments of 1 follow,
\* one more of them than a list holds, and the first payment may be deleted
NextRefund ==
    \E u \in Users :
        \/ made.payments = 0 /\ create_payment(u, "c1", 1, ListLimit + 1)
        \/ made.payments \in 1..(ListLimit + 1) /\ create_payment(u, "c1", 1, 1)
        \/ delete_payment(u, 1)

SpecRefund == InitLedger /\ [][NextRefund]_vars

\* A store after create_trip S1 and three create_shipment onto it: 10 kg and
\* 15 kg for client c1, who has no rate record, and 5 kg for client c2, whose
\* rate record says 80 per kg.
InitInvoice ==
    /\ clock = 1
    /\ trips = [t \in {1} |-> NoTrip]
    /\ shipments = [s \in {1, 2, 3} |->
                      [tenant_id |-> "tA", client_id |-> IF s = 3 THEN "c2" ELSE "c1",
                       trip_id |-> 1, status |-> "warehouse",
                       total_weight |-> IF s = 1 THEN 100 ELSE IF s = 2 THEN 150 ELSE 50]]
    /\ pieces = Empty
    /\ expenses = Empty
    /\ invoices = Empty
    /\ payments = Empty
    /\ documents = Empty
    /\ vehicle_compliance = Empty /\ driver_compliance = Empty /\ calls = Empty
    /\ invoice_line_items = Empty
    /\ made = [trips |-> 1, shipments |-> 3, pieces |-> 0, expenses |-> 0,
               invoices |-> 0, payments |-> 0, documents |-> 0,
               line_items |-> 0]
    /\ resp = [op |-> "init", code |-> 200, detail |-> "ok"]

\* the requests that make, change and delete invoices
InvoiceEdits == [status : {Absent, "sent"}, subtotal : {None, MaxAmount}, adjustments : {None}]

NextInvoice ==
    \/ \E u \in Users, t \in TripIds :
          generate_trip_invoices(u, t) /\ made'.invoices <= MaxInvoices
    \/ \E u \in Users, a \in Amounts :
          made.invoices < MaxInvoices /\ create_invoice(u, "c1", a, 1)
    \/ \E u \in Users, i \in 1..MaxInvoices, upd \in InvoiceEdits : update_invoice(u, i, upd)
    \/ \E u \in Users, i \in 1..MaxInvoices : delete_invoice(u, i)

SpecInvoice == InitInvoice /\ [][NextInvoice]_vars

\* A store after create_trip S1, two create_shipment and one
\* create_shipment_piece: one trip in planning, two shipments in the
\* warehouse, the first with one piece.
InitBarcode ==
    /\ trips = [t \in {1} |-> [NoTrip EXCEPT !.trip_number = "S1"]]
    /\ shipments = [s \in {1, 2} |-> NoShipment]
    /\ pieces = [p \in {1} |-> [shipment_id |-> 1, piece_number |-> 1,
                                barcode |-> generate_barcode_temp(ZeroPad(<<0>>, 6))]]
    /\ expenses = Empty
    /\ invoices = Empty
    /\ payments = Empty
    /\ documents = Empty
    /\ vehicle_compliance = Empty /\ driver_compliance = Empty /\ calls = Empty
    /\ invoice_line_items = Empty
    /\ made = [trips |-> 1, shipments |-> 2, pieces |-> 1, expenses |-> 0,
               invoices |-> 0, payments |-> 0, documents |-> 0,
               line_items |-> 0]
    /\ clock = 1
    /\ resp = [op |-> "init", code |-> 200, detail |-> "ok"]

\* the requests that write trip_id, trip_number or a barcode
BarcodeTripUpdates == [trip_number : TripNumbers, status : {Absent}]
BarcodeShipmentUpdates == [trip_id : TripIds, status : {Absent}]

BarcodeRequest(u) ==
    \/ \E t \in TripIds, upd \in BarcodeTripUpdates : update_trip(u, t, upd)
    \/ \E t \in TripIds : delete_trip(u, t)
    \/ \E s \in ShipmentIds, upd \in BarcodeShipmentUpdates : update_shipment(u, s, upd)
    \/ \E s \in ShipmentIds, n \in PieceNumbers, d \in RandomDigits :
          create_shipment_piece(u, s, n, d)
    \/ \E t \in TripIds, s \in ShipmentIds : assign_shipment_to_trip(u, t, s)
    \/ \E t \in TripIds, s \in ShipmentIds : \E d \in [PiecesOf(s) -> RandomDigits] :
          unassign_shipment_from_trip(u, t, s, d)
    \/ \E t \in TripIds, s \in ShipmentIds : \E d \in [PiecesOf(s) -> RandomHex] :
          remove_parcel_from_trip(u, t, s, d)

NextBarcode == \E u \in Users : BarcodeRequest(u)

SpecBarcode == InitBarcode /\ [][NextBarcode]_vars

\* the requests of assignment alone, on the same store
NextAssign ==
    \E u \in Users :
        \/ \E s \in ShipmentIds, n \in PieceNumbers, d \in RandomDigits :
              create_shipment_piece(u, s, n, d)
        \/ \E t \in TripIds, s \in ShipmentIds : assign_shipment_to_trip(u, t, s)
        \/ \E t \in TripIds, s \in ShipmentIds : \E d \in [PiecesOf(s) -> RandomDigits] :
              unassign_shipment_from_trip(u, t, s, d)
        \/ \E t \in TripIds, s \in ShipmentIds : \E d \in [PiecesOf(s) -> RandomHex] :
              remove_parcel_from_trip(u, t, s, d)

SpecAssign == InitBarcode /\ [][NextAssign]_vars

\* Two tenants. A store in which the owner of each has made a trip S1 with a
\* shipment of one piece on it, an expense and a document of the trip, and a
\* sent invoice with one payment on it: tenant tA holds the entities numbered
\* 1, tenant tB those numbered 2. The requests are those of the owner of
\* tenant tA, who passes every role check.
Actors == [tenant_id : {"tA"}, role : {"owner"}]

TenantOf(n) == IF n = 1 THEN "tA" ELSE "tB"

InitTenant ==
    /\ clock = 1
    /\ trips = [t \in {1, 2} |-> [NoTrip EXCEPT !.tenant_id = TenantOf(t)]]
    /\ shipments = [s \in {1, 2} |->
                      [NoShipment EXCEPT !.tenant_id = TenantOf(s), !.trip_id = s,
                                         !.status = "staged"]]
    /\ pieces = [p \in {1, 2} |-> [shipment_id |-> p, piece_number |-> p,
                                   barcode |-> generate_barcode_trip("S1", 1, p)]]
    /\ expenses = [e \in {1, 2} |-> [trip_id |-> e, amount |-> 10]]
    /\ invoices = [i \in {1, 2} |->
                     [tenant_id |-> TenantOf(i), client_id |-> "c1",
                      invoice_number |-> Fmt(1, 3),
                      subtotal |-> 1, adjustments |-> 0, total |-> 1,
                      status |-> "sent", sent_at |-> 1, paid_at |-> None,
                      due_date |-> calculate_due_date(payment_terms_days["c1"])]]
    /\ payments = [p \in {1, 2} |-> [tenant_id |-> TenantOf(p), client_id |-> "c1",
                                     invoice_id |-> p, amount |-> 1]]
    /\ documents = [d \in {1, 2} |->
                      [trip_id |-> d, uploaded_by |-> [tenant_id |-> TenantOf(d), role |-> "owner"]]]
    /\ vehicle_compliance = Empty /\ driver_compliance = Empty /\ calls = Empty
    /\ invoice_line_items = Empty
    /\ made = [trips |-> 2, shipments |-> 2, pieces |-> 2, expenses |-> 2,
               invoices |-> 2, payments |-> 2, documents |-> 2,
               line_items |-> 0]
    /\ resp = [op |-> "init", code |-> 200, detail |-> "ok"]

TenantTripUpdates == [trip_number : {Absent}, status : {"loading"}]
TenantShipmentUpdates == [trip_id : TripIds, status : {Absent}]
TenantInvoiceUpdates == [status : {"paid"}, subtotal : {None}, adjustments : {None}]

\* the requests of an actor that name a trip, a shipment, an expense, an
\* invoice, a payment or a document by its id
TenantRequest(u) ==
    \/ \E t \in 1..2, d \in 1..MaxDocuments : download_trip_document(u, t, d)
    \/ \E t \in 1..2 : made.documents < MaxDocuments /\ upload_trip_document(u, t)
    \/ \E t \in 1..2, d \in 1..MaxDocuments : delete_trip_document(u, t, d)
    \/ \E t \in 1..2, upd \in TenantTripUpdates : update_trip(u, t, upd)
    \/ \E t \in 1..2 : delete_trip(u, t)
    \/ \E t \in 1..2 : close_trip(u, t)
    \/ \E s \in 1..2, upd \in TenantShipmentUpdates : update_shipment(u, s, upd)
    \/ \E t \in 1..2, s \in 1..2 : assign_shipment_to_trip(u, t, s)
    \/ \E t \in 1..2, s \in 1..2 : \E d \in [PiecesOf(s) -> {ZeroPad(<<0>>, 6)}] :
          unassign_shipment_from_trip(u, t, s, d)
    \/ \E t \in 1..2, s \in 1..2 : \E d \in [PiecesOf(s) -> {ZeroPad(<<1>>, 8)}] :
          remove_parcel_from_trip(u, t, s, d)
    \/ \E t \in 1..2, e \in 1..2 : update_trip_expense(u, t, e, 20)
    \/ \E t \in 1..2, e \in 1..2 : delete_trip_expense(u, t, e)
    \/ \E i \in 1..2 : get_invoice(u, i)
    \/ \E i \in 1..2, upd \in TenantInvoiceUpdates : update_invoice(u, i, upd)
    \/ \E i \in 1..2 : delete_invoice(u, i)
    \/ \E p \in 1..2 : delete_payment(u, p)

NextTenant == \E u \in Actors : TenantRequest(u)

SpecTenant == InitTenant /\ [][NextTenant]_vars

\* Two tenants and an empty store: the owners make trips, renumber them and
\* delete them.
TripActors == [tenant_id : {"tA", "tB"}, role : {"owner"}]

NumberUpdates == [trip_number : TripNumbers, status : {Absent}]

NextTripNumber ==
    \E u \in TripActors :
        \/ \E n \in TripNumbers : create_trip(u, n)
        \/ \E t \in TripIds, upd \in NumberUpdates : update_trip(u, t, upd)
        \/ \E t \in TripIds : delete_trip(u, t)

SpecTripNumber == Init /\ [][NextTripNumber]_vars

\* A store after create_trip S1: one trip in planning. The trip is moved from
\* status to status as the days pass, by either handler of the route.
InitJourney ==
    /\ clock = 1
    /\ trips = [t \in {1} |-> NoTrip]
    /\ shipments = Empty
    /\ pieces = Empty
    /\ expenses = Empty
    /\ invoices = Empty
    /\ payments = Empty
    /\ documents = Empty
    /\ vehicle_compliance = Empty /\ driver_compliance = Empty /\ calls = Empty
    /\ invoice_line_items = Empty
    /\ made = [trips |-> 1, shipments |-> 0, pieces |-> 0, expenses |-> 0,
               invoices |-> 0, payments |-> 0, documents |-> 0,
               line_items |-> 0]
    /\ resp = [op |-> "init", code |-> 200, detail |-> "ok"]

JourneyUpdates == [trip_number : {Absent}, status : {"planning", "in_transit", "delivered"}]

NextJourney ==
    \/ \E u \in Users, t \in TripIds, upd \in JourneyUpdates : update_trip(u, t, upd)
    \/ \E u \in Users, t \in TripIds, upd \in JourneyUpdates : server_update_trip(u, t, upd)
    \/ tick

SpecJourney == InitJourney /\ [][NextJourney]_vars

\* the requests to four protected routes, with and without a session, as
\* the days pass
SessionShipmentUpdates == [trip_id : {None}, status : {"staged"}]

NextSession ==
    \/ \E r \in Requests : GET_auth_me(r)
    \/ \E r \in Requests : GET_shipments(r)
    \/ \E r \in Requests : POST_shipments(r, "c1", None)
    \/ \E r \in Requests, x \in ShipmentIds, upd \in SessionShipmentUpdates :
          PUT_shipments(r, x, upd)
    \/ tick

SpecSession == Init /\ [][NextSession]_vars

\* ------------------------------------------------------------- the trip lock
Locked(t) == t \in DOMAIN trips /\ trips[t].locked_at # None

\* the shipments whose trip_id is the trip
BoundTo(shps, t) == {s \in DOMAIN shps : shps[s].trip_id = t}

\* the expenses of the trip
ExpensesOf(exps, t) == [e \in {x \in DOMAIN exps : exps[x].trip_id = t} |-> exps[e]]

Forbidden == resp'.code = 403 /\ UNCHANGED <<expenses, shipments, pieces>>

\* C1: on a trip whose locked_at is set, every expense creation, update and
\* deletion and every shipment assignment and unassignment asked by an actor
\* who is not the owner is answered 403 Forbidden and leaves the expenses,
\* the shipments and the piece barcodes as they were.
C1_LockedRejectsNonOwner ==
    [][\A u \in Users, t \in TripIds :
         (Locked(t) /\ trips[t].tenant_id = u.tenant_id /\ u.role # "owner") =>
            /\ \A a \in ExpenseAmounts : create_trip_expense(u, t, a) => Forbidden
            /\ \A e \in ExpenseIds, a \in ExpenseAmounts :
                  update_trip_expense(u, t, e, a) => Forbidden
            /\ \A e \in ExpenseIds : delete_trip_expense(u, t, e) => Forbidden
            /\ \A s \in ShipmentIds : assign_shipment_to_trip(u, t, s) => Forbidden
            /\ \A s \in ShipmentIds : \A d \in [PiecesOf(s) -> RandomDigits] :
                  unassign_shipment_from_trip(u, t, s, d) => Forbidden
      ]_vars

\* C2: once a trip's locked_at is set, no request of an actor who is not the
\* owner changes the trip's fields, the set of shipments bound to it or its
\* expenses.
C2_LockedFrozenForNonOwner ==
    [][\A u \in Users : (u.role # "owner" /\ LockRequest(u)) =>
         \A t \in TripIds : Locked(t) =>
            /\ t \in DOMAIN trips'
            /\ trips'[t] = trips[t]
            /\ BoundTo(shipments', t) = BoundTo(shipments, t)
            /\ ExpensesOf(expenses', t) = ExpensesOf(expenses, t)
      ]_vars

\* C3: on a trip whose locked_at is set, the owner's expense creation, update
\* and deletion and the owner's shipment assignment and unassignment succeed
\* and take effect.
C3_LockedAcceptsOwner ==
    [][\A u \in Users, t \in TripIds :
         (Locked(t) /\ trips[t].tenant_id = u.tenant_id /\ u.role = "owner") =>
            /\ \A a \in ExpenseAmounts : create_trip_expense(u, t, a) =>
                  /\ resp'.code = 200
                  /\ \E e \in DOMAIN expenses' \ DOMAIN expenses :
                        expenses'[e] = [trip_id |-> t, amount |-> a]
            /\ \A e \in DOMAIN ExpensesOf(expenses, t), a \in ExpenseAmounts :
                  update_trip_expense(u, t, e, a) =>
                     resp'.code = 200 /\ expenses'[e].amount = a
            /\ \A e \in DOMAIN ExpensesOf(expenses, t) :
                  delete_trip_expense(u, t, e) =>
                     resp'.code = 200 /\ e \notin DOMAIN expenses'
            /\ \A s \in DOMAIN shipments : assign_shipment_to_trip(u, t, s) =>
                  resp'.code = 200 /\ shipments'[s].trip_id = t
            /\ \A s \in BoundTo(shipments, t) : \A d \in [PiecesOf(s) -> RandomDigits] :
                  unassign_shipment_from_trip(u, t, s, d) =>
                     resp'.code = 200 /\ shipments'[s].trip_id = None
      ]_vars

AlreadyClosed == resp'.code = 400 /\ resp'.detail = "Trip is already closed"

\* C4: closing a trip that is already closed, through close_trip or through
\* update_trip with status closed, is answered AlreadyClosed for every actor,
\* and never succeeds.
C4_CloseClosedIsAlreadyClosed ==
    [][\A u \in Users, t \in TripIds :
         (TripFound(t, u.tenant_id) /\ trips[t].status = "closed") =>
            /\ close_trip(u, t) => AlreadyClosed
            /\ \A upd \in LockTripUpdates :
                  (upd.status = "closed" /\ update_trip(u, t, upd)) => AlreadyClosed
      ]_vars

\* C5: locked_at is set exactly once: it becomes non-null only in a step in
\* which the status becomes closed, and once non-null it keeps its value.
C5_LockedAtSetOnce ==
    [][\A t \in DOMAIN trips \cap DOMAIN trips' :
         /\ trips[t].locked_at # None => trips'[t].locked_at = trips[t].locked_at
         /\ (trips[t].locked_at = None /\ trips'[t].locked_at # None) =>
               (trips[t].status # "closed" /\ trips'[t].status = "closed")
      ]_vars

\* C6: closed is terminal: once a trip's status is closed, no request changes
\* its status.
C6_ClosedIsTerminal ==
    [][\A t \in DOMAIN trips \cap DOMAIN trips' :
         trips[t].status = "closed" => trips'[t].status = "closed"
      ]_vars

\* ------------------------------------------------------------- barcodes and trip_id
\* C7: in every state, the pieces of a shipment whose trip_id is null carry
\* TEMP-<6 decimal digits>, and the pieces of a shipment whose trip_id is a
\* trip carry "<the trip's current trip_number>-<3-digit seq>-<2-digit piece_number>".
C7_BarcodeMatchesTripId ==
    \A p \in DOMAIN pieces :
        LET shipment == shipments[pieces[p].shipment_id] IN
        /\ shipment.trip_id = None => IsTempPattern(pieces[p].barcode)
        /\ shipment.trip_id \in DOMAIN trips =>
              IsTripPattern(pieces[p].barcode, trips[shipment.trip_id].trip_number,
                            pieces[p].piece_number)

\* the pieces that carry a barcode of the trip their shipment is on
OnTrip(p, t) ==
    /\ shipments[pieces[p].shipment_id].trip_id = t
    /\ IsTripPattern(pieces[p].barcode, trips[t].trip_number, pieces[p].piece_number)

\* C8: no two pieces carry the same barcode, and two different shipments on
\* the same trip never carry the same shipment sequence in their barcodes.
C8_UniqueBarcodeAndSequence ==
    /\ \A p, q \in DOMAIN pieces : p # q => pieces[p].barcode # pieces[q].barcode
    /\ \A t \in DOMAIN trips : \A p, q \in DOMAIN pieces :
          (OnTrip(p, t) /\ OnTrip(q, t) /\ pieces[p].shipment_id # pieces[q].shipment_id)
             => pieces[p].barcode.a # pieces[q].barcode.a

\* C9: when an assignment is followed at once by a successful unassignment of
\* a shipment of the trip, through unassign_shipment_from_trip or through
\* remove_parcel_from_trip, every piece of the shipment carries
\* TEMP-<6 decimal digits>.
C9_UnassignRestoresTemp ==
    [][\A u \in Users, t \in TripIds, s \in ShipmentIds :
         (/\ resp.op = "assign_shipment_to_trip" /\ resp.code = 200
          /\ resp'.code = 200
          /\ \/ \E d \in [PiecesOf(s) -> RandomDigits] : unassign_shipment_from_trip(u, t, s, d)
             \/ \E d \in [PiecesOf(s) -> RandomHex] : remove_parcel_from_trip(u, t, s, d))
            => \A p \in PiecesOf(s) : IsTempPattern(pieces'[p].barcode)
      ]_vars

\* ------------------------------------------------------------- payments
\* the sum of the amounts of all the payments allocated to the invoice
PaidInFull(pays, invs, i) ==
    SumAmounts(pays, {p \in DOMAIN pays : pays[p].invoice_id = i}) >= invs[i].total

\* C10: after a create_payment allocated to an invoice, if the sum of all the
\* invoice's payments is greater than or equal to its total the invoice is
\* paid and paid_at is set, and if the sum is below the total the payment
\* leaves the status as it was.
C10_PaymentSettlesInvoice ==
    [][\A u \in Users, i \in DOMAIN invoices, a \in Amounts :
         \A c \in Clients[u.tenant_id] :
            (create_payment(u, c, i, a) /\ resp'.code = 200) =>
               IF PaidInFull(payments', invoices, i)
               THEN invoices'[i].status = "paid" /\ invoices'[i].paid_at # None
               ELSE invoices'[i].status = invoices[i].status
      ]_vars

\* C11: after delete_payment removes a payment allocated to an invoice that
\* is paid, if the remaining payments sum to less than the total the invoice
\* becomes overdue when its due_date has passed and sent otherwise, and
\* paid_at is cleared; if the remaining payments still cover the total, or
\* the invoice was not paid, its status is unchanged.
C11_DeletePaymentReverts ==
    [][\A u \in Users, p \in DOMAIN payments :
         LET i == payments[p].invoice_id IN
         (delete_payment(u, p) /\ resp'.code = 200 /\ i \in DOMAIN invoices) =>
            IF invoices[i].status = "paid" /\ ~PaidInFull(payments', invoices, i)
            THEN /\ invoices'[i].status =
                       IF invoices[i].due_date < Now THEN "overdue" ELSE "sent"
                 /\ invoices'[i].paid_at = None
            ELSE invoices'[i].status = invoices[i].status
      ]_vars

\* ------------------------------------------------------------- overdue
\* the invoice is due for the flip, or has been flipped already
PastDue(invoice) == invoice.status # "paid" /\ invoice.due_date < Now

\* C12: whenever get_invoice or list_invoices returns an invoice that is not
\* paid and whose due_date is before today, the stored status is overdue
\* after the request and the answer reports overdue; an invoice that a read
\* has made overdue and that has not been paid since is reported overdue by
\* every later read or list.
C12_ReadFlipsToOverdue ==
    [][\A u \in Users, i \in DOMAIN invoices :
         /\ (get_invoice(u, i) /\ resp'.code = 200 /\ PastDue(invoices[i])) =>
               (invoices'[i].status = "overdue" /\ resp'.detail.status = "overdue")
         /\ \A st \in InvoiceFilters :
               (/\ list_invoices(u, st, Absent)
                /\ i \in DOMAIN resp'.detail
                /\ PastDue(invoices[i])) =>
                  (invoices'[i].status = "overdue" /\ resp'.detail[i] = "overdue")
      ]_vars

\* a sent invoice on which nothing was paid has been read after its due date
C12_Witness ==
    /\ resp.op = "get_invoice" /\ resp.code = 200 /\ resp.detail.status = "overdue"
    /\ made.payments = 0
    /\ invoices[1].status = "overdue" /\ invoices[1].sent_at # None
    /\ invoices[1].due_date < Now

\* C13: every invoice on file, whether create_invoice or generate_trip_invoices
\* produced it and whatever update_invoice did to it since, carries the field
\* adjustments and has total = subtotal + adjustments.
C13_TotalIsSubtotalPlusAdjustments ==
    \A i \in DOMAIN invoices :
        /\ "adjustments" \in DOMAIN invoices[i]
        /\ invoices[i].total = invoices[i].subtotal + invoices[i].adjustments

\* C14: once generate_trip_invoices has been called on a trip, a second call on
\* the same trip, nothing having changed in between, creates no invoice and
\* answers without error.
C14_SecondGenerateCreatesNothing ==
    \A u \in Users, t \in TripIds :
        (/\ TripFound(t, u.tenant_id)
         /\ resp.op = "generate_trip_invoices" /\ resp.code # 404
         /\ resp.detail.trip_id = t) =>
           ENABLED (/\ generate_trip_invoices(u, t)
                    /\ resp'.code = 200 /\ resp'.detail.created = 0
                    /\ invoices' = invoices)

\* C15: invoice numbers are unique per tenant: no create_invoice and no
\* generate_trip_invoices gives a new invoice a number that an invoice of the
\* tenant on file holds (the store answers such an insert with
\* DuplicateKeyError), and no two invoices of a tenant on file share a number.
C15_InvoiceNumbersUnique ==
    [][/\ \A u \in Users, t \in TripIds :
             generate_trip_invoices(u, t) => resp'.code # 500
       /\ \A u \in Users, a \in Amounts :
             create_invoice(u, "c1", a, 1) => resp'.code # 500
       /\ \A i, j \in DOMAIN invoices' :
             (/\ i # j
              /\ invoices'[i].tenant_id = invoices'[j].tenant_id) =>
                invoices'[i].invoice_number # invoices'[j].invoice_number
      ]_vars

\* the rate the client's rate record states, 50 when the client has none
StatedRate(client_id) ==
    IF FindRate(client_id) = <<>> THEN FallbackRate ELSE FindRate(client_id)[1].rate_value

\* C16: every invoice generate_trip_invoices creates has subtotal = the sum of
\* its shipments' weights x the rate of the client's rate record, 50 when the
\* client has none, vat = 15% of the subtotal and total = subtotal + vat
\* (weights in tenths of a kg, money in cents).
C16_GeneratedAmounts ==
    [][\A u \in Users, t \in TripIds :
         generate_trip_invoices(u, t) =>
            \A i \in DOMAIN invoices' \ DOMAIN invoices :
                LET invoice == invoices'[i] IN
                /\ invoice.subtotal * 10
                      = SumWeights(invoice.shipment_ids) * StatedRate(invoice.client_id) * 100
                /\ invoice.vat * 100 = invoice.subtotal * VatPercent
                /\ invoice.total = invoice.subtotal + invoice.vat
      ]_vars

\* ------------------------------------------------------------- tenants
\* the entities of a collection that belong to another tenant than the
\* actor's: a piece belongs to the tenant of its shipment, an expense to the
\* tenant of its trip, a document to the tenant of the user who uploaded it
ForeignTrips(u) == {t \in DOMAIN trips : trips[t].tenant_id # u.tenant_id}
ForeignShipments(u) == {x \in DOMAIN shipments : shipments[x].tenant_id # u.tenant_id}
ForeignPieces(u) == {p \in DOMAIN pieces : pieces[p].shipment_id \in ForeignShipments(u)}
ForeignExpenses(u) == {e \in DOMAIN expenses : expenses[e].trip_id \in ForeignTrips(u)}
ForeignInvoices(u) == {i \in DOMAIN invoices : invoices[i].tenant_id # u.tenant_id}
ForeignPayments(u) == {p \in DOMAIN payments : payments[p].tenant_id # u.tenant_id}
ForeignDocuments(u) ==
    {d \in DOMAIN documents : documents[d].uploaded_by.tenant_id # u.tenant_id}

\* the step leaves the entities of the other tenants as they were
ForeignKept(u) ==
    /\ \A t \in ForeignTrips(u) : t \in DOMAIN trips' /\ trips'[t] = trips[t]
    /\ \A x \in ForeignShipments(u) : x \in DOMAIN shipments' /\ shipments'[x] = shipments[x]
    /\ \A p \in ForeignPieces(u) : p \in DOMAIN pieces' /\ pieces'[p] = pieces[p]
    /\ \A e \in ForeignExpenses(u) : e \in DOMAIN expenses' /\ expenses'[e] = expenses[e]
    /\ \A i \in ForeignInvoices(u) : i \in DOMAIN invoices' /\ invoices'[i] = invoices[i]
    /\ \A p \in ForeignPayments(u) : p \in DOMAIN payments' /\ payments'[p] = payments[p]
    /\ \A d \in ForeignDocuments(u) : d \in DOMAIN documents' /\ documents'[d] = documents[d]

NotFound == resp'.code = 404 /\ UNCHANGED dbvars

\* C17: a request of an actor leaves every entity of another tenant as it was,
\* and a request that names a trip, a shipment, an expense, an invoice, a
\* payment or a document of another tenant is answered NotFound and changes
\* nothing.
C17_TenantIsolation ==
    [][\A u \in Actors :
         /\ TenantRequest(u) => ForeignKept(u)
         /\ \A t \in ForeignTrips(u) :
               /\ \A upd \in TenantTripUpdates : update_trip(u, t, upd) => NotFound
               /\ delete_trip(u, t) => NotFound
               /\ close_trip(u, t) => NotFound
               /\ upload_trip_document(u, t) => NotFound
               /\ \A x \in 1..2 :
                     /\ assign_shipment_to_trip(u, t, x) => NotFound
                     /\ \A d \in [PiecesOf(x) -> {ZeroPad(<<0>>, 6)}] :
                           unassign_shipment_from_trip(u, t, x, d) => NotFound
                     /\ \A d \in [PiecesOf(x) -> {ZeroPad(<<1>>, 8)}] :
                           remove_parcel_from_trip(u, t, x, d) => NotFound
                     /\ update_shipment(u, x, [trip_id |-> t, status |-> Absent]) => NotFound
               /\ \A e \in 1..2 :
                     /\ update_trip_expense(u, t, e, 20) => NotFound
                     /\ delete_trip_expense(u, t, e) => NotFound
               /\ \A d \in 1..MaxDocuments :
                     /\ delete_trip_document(u, t, d) => NotFound
                     /\ download_trip_document(u, t, d) => NotFound
         /\ \A x \in ForeignShipments(u) :
               /\ \A upd \in TenantShipmentUpdates : update_shipment(u, x, upd) => NotFound
               /\ \A t \in 1..2 :
                     /\ assign_shipment_to_trip(u, t, x) => NotFound
                     /\ \A d \in [PiecesOf(x) -> {ZeroPad(<<0>>, 6)}] :
                           unassign_shipment_from_trip(u, t, x, d) => NotFound
                     /\ \A d \in [PiecesOf(x) -> {ZeroPad(<<1>>, 8)}] :
                           remove_parcel_from_trip(u, t, x, d) => NotFound
         /\ \A e \in ForeignExpenses(u), t \in 1..2 :
               /\ update_trip_expense(u, t, e, 20) => NotFound
               /\ delete_trip_expense(u, t, e) => NotFound
         /\ \A i \in ForeignInvoices(u) :
               /\ get_invoice(u, i) => NotFound
               /\ \A upd \in TenantInvoiceUpdates : update_invoice(u, i, upd) => NotFound
               /\ delete_invoice(u, i) => NotFound
         /\ \A p \in ForeignPayments(u) : delete_payment(u, p) => NotFound
         /\ \A d \in ForeignDocuments(u), t \in 1..2 :
               /\ delete_trip_document(u, t, d) => NotFound
               /\ download_trip_document(u, t, d) => NotFound
      ]_vars

\* ------------------------------------------------------------- trip numbers
\* a trip of the tenant other than `but` has the number
NumberInUse(tenant_id, trip_number, but) ==
    \E t \in DOMAIN trips \ {but} :
        trips[t].tenant_id = tenant_id /\ trips[t].trip_number = trip_number

\* C18: a create_trip or an update_trip that would give a trip a number that
\* another trip of the same tenant has is rejected and changes nothing, one
\* whose number is free in the tenant is served even when a trip of another
\* tenant has the number, and after the request no two trips of one tenant
\* share a number.
C18_TripNumbersUnique ==
    [][/\ \A u \in TripActors, n \in TripNumbers :
             create_trip(u, n) =>
                IF NumberInUse(u.tenant_id, n, None)
                THEN resp'.code = 400 /\ UNCHANGED dbvars
                ELSE resp'.code = 200 /\ trips'[NewId("trips")].trip_number = n
       /\ \A u \in TripActors, t \in TripIds, upd \in NumberUpdates :
             (update_trip(u, t, upd) /\ TripFound(t, u.tenant_id)) =>
                IF NumberInUse(u.tenant_id, upd.trip_number, t)
                THEN resp'.code = 400 /\ UNCHANGED dbvars
                ELSE resp'.code = 200 /\ trips'[t].trip_number = upd.trip_number
       /\ \A t1, t2 \in DOMAIN trips' :
             (t1 # t2 /\ trips'[t1].tenant_id = trips'[t2].tenant_id) =>
                trips'[t1].trip_number # trips'[t2].trip_number
      ]_vars

\* an update_trip to the number of the tenant's other trip has been rejected
C18_Witness ==
    /\ resp.op = "update_trip" /\ resp.code = 400
    /\ DOMAIN trips = {1, 2}
    /\ trips[1].tenant_id = trips[2].tenant_id
    /\ trips[1].trip_number # trips[2].trip_number

\* ------------------------------------------------------------- trip timestamps
\* the value a timestamp has after a request whose status enters `state`
SetOnce(stamp, trip, upd, state) ==
    IF upd.status = state /\ trip.status # state /\ stamp = None THEN Now ELSE stamp

\* C19: an update_trip that changes the status into in_transit sets
\* actual_departure to the current time if and only if it was unset, one that
\* changes the status into delivered does the same for actual_arrival, and no
\* other update of the status changes either timestamp; either handler of
\* the route is an update_trip.
C19_TimestampsSetOnce ==
    [][\A u \in Users, t \in DOMAIN trips, upd \in JourneyUpdates :
         ((update_trip(u, t, upd) \/ server_update_trip(u, t, upd)) /\ resp'.code = 200) =>
            /\ trips'[t].actual_departure
                  = SetOnce(trips[t].actual_departure, trips[t], upd, "in_transit")
            /\ trips'[t].actual_arrival
                  = SetOnce(trips[t].actual_arrival, trips[t], upd, "delivered")
      ]_vars

\* ------------------------------------------------------------- sessions
\* the session token the request presents: the cookie, else the bearer token
Presented(r) ==
    IF r.cookie # "" THEN r.cookie
    ELSE IF r.authorization # <<>> /\ r.authorization[1] = "Bearer" THEN r.authorization[2]
    ELSE ""

\* the request has no session token, one no session has, or one of a session
\* whose expires_at is in the past
Unauthenticated(r) ==
    \/ Presented(r) = ""
    \/ Presented(r) \notin DOMAIN user_sessions
    \/ user_sessions[Presented(r)].expires_at < Now

\* C20: a request to a protected route without a session token, with an
\* unknown one or with one of an expired session is answered 401, the answer
\* holds nothing of the store and the store is left as it was.
C20_NoSessionIs401 ==
    [][\A r \in Requests :
         (/\ Unauthenticated(r)
          /\ \/ GET_auth_me(r)
             \/ GET_shipments(r)
             \/ POST_shipments(r, "c1", None)
             \/ \E x \in ShipmentIds, upd \in SessionShipmentUpdates :
                   PUT_shipments(r, x, upd)) =>
            /\ resp'.code = 401
            /\ resp'.detail \in {"Not authenticated", "Invalid session", "Session expired"}
            /\ UNCHANGED dbvars
      ]_vars

\* a shipment is on file and a request with the token of the session that
\* ran out the day before has been refused
C20_Witness ==
    /\ resp.code = 401 /\ resp.detail = "Session expired"
    /\ resp.op = "create_shipment"
    /\ user_sessions["stale"].expires_at < Now
    /\ DOMAIN shipments # {}

\* ------------------------------------------------------------- compliance reminders
\* A date text "<y>-<m>-<d>" is kept as its three parts, each the digits the
\* text holds; a date is the number of its day, day 1 being 2025-01-01.
MaxItems == 2
WeekDays == 7
MonthDays == 30
DefaultReminderDays == 30

\* the characters of a date text, "-" (which sorts before every digit) as -1
Chars(text) == text.y \o <<-1>> \o text.m \o <<-1>> \o text.d

\* the days of a year before the first of each month, no year of the model
\* being a leap year
DaysBefore == <<0, 31, 59, 90, 120, 151, 181, 212, 243, 273, 304, 334>>

\* datetime.strptime(text, "%Y-%m-%d"): <<the date>>, or <<>> for the ValueError
\* of a text that is no date; %m and %d take one digit or two
strptime(text) ==
    LET y == IntOf(text.y)
        m == IntOf(text.m)
        d == IntOf(text.d)
    IN  IF /\ Len(text.y) = 4
           /\ Len(text.m) \in 1..2 /\ m \in 1..12
           /\ Len(text.d) \in 1..2 /\ d >= 1
           /\ d <= (IF m = 12 THEN 365 ELSE DaysBefore[m + 1]) - DaysBefore[m]
        THEN <<(y - 2025) * 365 + DaysBefore[m] + d>>
        ELSE <<>>

\* date.strftime("%Y-%m-%d"): four, two and two digits, padded with zeros
strftime(date) ==
    LET doy == ((date - 1) % 365) + 1
        m == CHOOSE k \in 1..12 :
                 /\ DaysBefore[k] < doy
                 /\ (k = 12 \/ doy <= DaysBefore[k + 1])
    IN  [y |-> Fmt(2025 + ((date - 1) \div 365), 4),
         m |-> Fmt(m, 2),
         d |-> Fmt(doy - DaysBefore[m], 2)]

\* datetime.now(timezone.utc) of the reminders view: the clock's first day is
\* 2025-03-10
today == strptime([y |-> <<2, 0, 2, 5>>, m |-> <<0, 3>>, d |-> <<0, 9>>])[1] + clock

\* db.vehicles and db.drivers: one vehicle and one driver of each tenant
vehicles == [v1 |-> [tenant_id |-> "tA"], v2 |-> [tenant_id |-> "tB"]]
drivers == [d1 |-> [tenant_id |-> "tA"], d2 |-> [tenant_id |-> "tB"]]

add_vehicle_compliance(user, vehicle_id, expiry_date, reminder_days_before) ==
    LET id == Cardinality(DOMAIN vehicle_compliance) + 1 IN
    IF vehicles[vehicle_id].tenant_id # user.tenant_id
    THEN Reply("add_vehicle_compliance", 404, "Vehicle not found") /\ UNCHANGED dbvars
    ELSE /\ id <= MaxItems
         /\ vehicle_compliance' = (id :> [vehicle_id |-> vehicle_id, expiry_date |-> expiry_date,
                                          reminder_days_before |-> reminder_days_before])
                                  @@ vehicle_compliance
         /\ Reply("add_vehicle_compliance", 200, id)
         /\ UNCHANGED <<trips, shipments, pieces, expenses, invoices, payments, documents,
                        made, clock, driver_compliance, calls, invoice_line_items>>

add_driver_compliance(user, driver_id, expiry_date, reminder_days_before) ==
    LET id == Cardinality(DOMAIN driver_compliance) + 1 IN
    IF drivers[driver_id].tenant_id # user.tenant_id
    THEN Reply("add_driver_compliance", 404, "Driver not found") /\ UNCHANGED dbvars
    ELSE /\ id <= MaxItems
         /\ driver_compliance' = (id :> [driver_id |-> driver_id, expiry_date |-> expiry_date,
                                         reminder_days_before |-> reminder_days_before])
                                 @@ driver_compliance
         /\ Reply("add_driver_compliance", 200, id)
         /\ UNCHANGED <<trips, shipments, pieces, expenses, invoices, payments, documents,
                        made, clock, vehicle_compliance, calls, invoice_line_items>>

\* item["expiry_date"] < today_str or reminder_date <= today_str, the texts
\* compared as strings
InWindow(item, day) ==
    LET reminder_date == strftime(strptime(item.expiry_date)[1] - item.reminder_days_before)
    IN  \/ StrLess(Chars(item.expiry_date), Chars(strftime(day)))
        \/ ~StrLess(Chars(strftime(day)), Chars(reminder_date))

\* the if / elif chain that picks the list an entry is appended to
Category(expiry_date, day) ==
    IF StrLess(Chars(expiry_date), Chars(strftime(day))) THEN "overdue"
    ELSE IF ~StrLess(Chars(strftime(day + WeekDays)), Chars(expiry_date)) THEN "due_this_week"
    ELSE IF ~StrLess(Chars(strftime(day + MonthDays)), Chars(expiry_date)) THEN "due_this_month"
    ELSE "upcoming"

\* list.sort(key=lambda x: x["expiry_date"]): a stable sort by the text
RECURSIVE SortByExpiry(_)
SortByExpiry(entries) ==
    IF entries = <<>> THEN <<>>
    ELSE LET i == CHOOSE k \in 1..Len(entries) :
                      /\ \A j \in 1..Len(entries) :
                             ~StrLess(Chars(entries[j].expiry_date), Chars(entries[k].expiry_date))
                      /\ \A j \in 1..(k - 1) : entries[j].expiry_date # entries[k].expiry_date
         IN  <<entries[i]>> \o SortByExpiry(SubSeq(entries, 1, i - 1) \o SubSeq(entries, i + 1, Len(entries)))

\* the entries of one collection, in the order the items are found
RECURSIVE EntriesOf(_, _, _, _, _)
EntriesOf(kind, items, owners, tenant_id, ids) ==
    IF ids = <<>> THEN <<>>
    ELSE LET item == items[Head(ids)]
             owner == IF kind = "vehicle" THEN item.vehicle_id ELSE item.driver_id
             rest == EntriesOf(kind, items, owners, tenant_id, Tail(ids))
         IN  IF owners[owner].tenant_id = tenant_id /\ InWindow(item, today)
             THEN <<[type |-> kind, compliance_id |-> Head(ids), expiry_date |-> item.expiry_date,
                     category |-> Category(item.expiry_date, today)]>> \o rest
             ELSE rest

get_compliance_reminders(user) ==
    LET mine == {i \in DOMAIN vehicle_compliance :
                     vehicles[vehicle_compliance[i].vehicle_id].tenant_id = user.tenant_id}
        theirs == {i \in DOMAIN driver_compliance :
                     drivers[driver_compliance[i].driver_id].tenant_id = user.tenant_id}
        entries == EntriesOf("vehicle", vehicle_compliance, vehicles, user.tenant_id,
                             InOrder(DOMAIN vehicle_compliance))
                   \o EntriesOf("driver", driver_compliance, drivers, user.tenant_id,
                                InOrder(DOMAIN driver_compliance))
        reminders == [c \in {"overdue", "due_this_week", "due_this_month", "upcoming"} |->
                         SortByExpiry(SelectSeq(entries, LAMBDA e : e.category = c))]
    IN  /\ IF \/ \E i \in mine : strptime(vehicle_compliance[i].expiry_date) = <<>>
              \/ \E i \in theirs : strptime(driver_compliance[i].expiry_date) = <<>>
           THEN Reply("get_compliance_reminders", 500, "ValueError")
           ELSE Reply("get_compliance_reminders", 200,
                      [reminders |-> reminders, total |-> Len(entries)])
        /\ UNCHANGED dbvars

\* the expiry_date texts of the requests: 2025-03-05, 2025-03-15, 2025-03-20,
\* 2025-06-01, 2025-3-5 (March 5th, not padded) and 2025-02-30 (no date)
ExpiryTexts ==
    {[y |-> <<2, 0, 2, 5>>, m |-> <<0, 3>>, d |-> <<0, 5>>],
     [y |-> <<2, 0, 2, 5>>, m |-> <<0, 3>>, d |-> <<1, 5>>],
     [y |-> <<2, 0, 2, 5>>, m |-> <<0, 3>>, d |-> <<2, 0>>],
     [y |-> <<2, 0, 2, 5>>, m |-> <<0, 6>>, d |-> <<0, 1>>],
     [y |-> <<2, 0, 2, 5>>, m |-> <<3>>, d |-> <<5>>],
     [y |-> <<2, 0, 2, 5>>, m |-> <<0, 2>>, d |-> <<3, 0>>]}

\* The fleet of two tenants with no compliance item yet.
InitReminders ==
    /\ clock = 1
    /\ trips = Empty /\ shipments = Empty /\ pieces = Empty /\ expenses = Empty
    /\ invoices = Empty /\ payments = Empty /\ documents = Empty
    /\ vehicle_compliance = Empty /\ driver_compliance = Empty /\ calls = Empty
    /\ invoice_line_items = Empty
    /\ made = [trips |-> 0, shipments |-> 0, pieces |-> 0, expenses |-> 0,
               invoices |-> 0, payments |-> 0, documents |-> 0,
               line_items |-> 0]
    /\ resp = [op |-> "init", code |-> 200, detail |-> "ok"]

NextReminders ==
    \/ \E u \in Users, v \in DOMAIN vehicles, e \in ExpiryTexts, r \in {DefaultReminderDays, 90} :
           add_vehicle_compliance(u, v, e, r)
    \/ \E u \in Users, d \in DOMAIN drivers, e \in {t \in ExpiryTexts : t.m # <<0, 3>>} :
           add_driver_compliance(u, d, e, DefaultReminderDays)
    \/ \E u \in Users : get_compliance_reminders(u)
    \/ tick

SpecReminders == InitReminders /\ [][NextReminders]_vars

\* the bucket the urgency rule gives a date that expires on `expiry`
Urgency(expiry, day) ==
    IF expiry < day THEN "overdue"
    ELSE IF expiry <= day + WeekDays THEN "due_this_week"
    ELSE IF expiry <= day + MonthDays THEN "due_this_month"
    ELSE "upcoming"

\* the stored item an entry of the view was made from
ItemOf(entry) ==
    IF entry.type = "vehicle" THEN vehicle_compliance[entry.compliance_id]
    ELSE driver_compliance[entry.compliance_id]

\* C21: in the reminders view an item is included only if it is overdue or
\* its expiry minus reminder_days_before has passed, every included item is
\* in exactly one bucket, the one the urgency rule gives its expiry date
\* (overdue, else due_this_week up to today+7, else due_this_month up to
\* today+30, else upcoming), and an item that expires in 10 days with
\* reminder_days_before = 30 is included, as due_this_month.
C21_ReminderBuckets ==
    (resp.op = "get_compliance_reminders" /\ resp.code = 200) =>
        LET view == resp.detail.reminders
            Shown == {s \in (DOMAIN view) \X (1..(MaxItems * 2)) : s[2] <= Len(view[s[1]])}
            Expiry(item) == strptime(item.expiry_date)[1]
        IN  /\ \A s \in Shown :
                   LET entry == view[s[1]][s[2]]
                       item == ItemOf(entry)
                   IN  /\ \/ Expiry(item) < today
                          \/ Expiry(item) - item.reminder_days_before <= today
                       /\ s[1] = Urgency(Expiry(item), today)
                       /\ \A o \in Shown :
                              (/\ view[o[1]][o[2]].type = entry.type
                               /\ view[o[1]][o[2]].compliance_id = entry.compliance_id) => o = s
            /\ \A i \in DOMAIN vehicle_compliance :
                   (/\ vehicles[vehicle_compliance[i].vehicle_id].tenant_id \in Tenants
                    /\ Expiry(vehicle_compliance[i]) = today + 10
                    /\ vehicle_compliance[i].reminder_days_before = DefaultReminderDays) =>
                       \E k \in 1..Len(view["due_this_month"]) :
                           /\ view["due_this_month"][k].type = "vehicle"
                           /\ view["due_this_month"][k].compliance_id = i

\* ------------------------------------------------------------- requests in flight
\* A handler gives way to the other requests at each of its awaits.  A
\* request in flight is a record of `calls`: the handler (op), the await it
\* resumes from (pc) and the local variables it holds.
MaxCalls == 2
CallIds == 1..MaxCalls

\* the request is answered and is no longer in flight
Return(c, op, code, detail) ==
    /\ calls' = [k \in DOMAIN calls \ {c} |-> calls[k]]
    /\ Reply(op, code, detail)

\* assign_shipment_to_trip up to its first await, db.trips.find_one
assign_shipment_to_trip_await(c, user, trip_id, shipment_id) ==
    /\ c \notin DOMAIN calls
    /\ IF ~TripFound(trip_id, user.tenant_id)
       THEN Reply("assign_shipment_to_trip", 404, "Trip not found") /\ UNCHANGED calls
       ELSE IF trips[trip_id].locked_at # None
       THEN Reply("assign_shipment_to_trip", 403, "Cannot modify shipments on a locked trip")
            /\ UNCHANGED calls
       ELSE /\ calls' = (c :> [op |-> "assign_shipment_to_trip", pc |-> "update_shipment",
                               tenant_id |-> user.tenant_id, trip_id |-> trip_id,
                               shipment_id |-> shipment_id, trip |-> trips[trip_id],
                               pieces |-> <<>>, shipment_count |-> 0]) @@ calls
            /\ UNCHANGED resp
    /\ UNCHANGED <<trips, shipments, pieces, expenses, invoices, payments, documents, made,
                   clock, vehicle_compliance, driver_compliance,
                   invoice_line_items>>

\* assign_shipment_to_trip from one await to the next: db.shipments.update_one,
\* db.shipment_pieces.find, db.shipments.count_documents and one
\* db.shipment_pieces.update_one for each piece found
assign_shipment_to_trip_resume(c) ==
    /\ c \in DOMAIN calls /\ calls[c].op = "assign_shipment_to_trip"
    /\ LET call == calls[c]
           s == call.shipment_id
       IN  CASE call.pc = "update_shipment" ->
                  IF ~(s \in DOMAIN shipments /\ shipments[s].tenant_id = call.tenant_id)
                  THEN /\ Return(c, call.op, 404, "Shipment not found")
                       /\ UNCHANGED <<shipments, pieces>>
                  ELSE /\ shipments' = [shipments EXCEPT ![s].trip_id = call.trip_id,
                                                         ![s].status = "staged"]
                       /\ calls' = [calls EXCEPT ![c].pc = "find_pieces"]
                       /\ UNCHANGED <<pieces, resp>>
             [] call.pc = "find_pieces" ->
                  /\ calls' = [calls EXCEPT ![c].pc = "count_documents",
                                            ![c].pieces = InOrder(PiecesOf(s))]
                  /\ UNCHANGED <<shipments, pieces, resp>>
             [] call.pc = "count_documents" ->
                  /\ calls' = [calls EXCEPT
                                 ![c].pc = "update_piece",
                                 ![c].shipment_count =
                                     CountShipments(shipments, call.tenant_id, call.trip_id)]
                  /\ UNCHANGED <<shipments, pieces, resp>>
             [] call.pc = "update_piece" ->
                  IF call.pieces = <<>>
                  THEN /\ Return(c, call.op, 200, "ok")
                       /\ UNCHANGED <<shipments, pieces>>
                  ELSE LET p == Head(call.pieces)
                           \* piece is the document read by find: its piece_number
                           new == generate_barcode(call.trip.trip_number, call.shipment_count,
                                                   pieces[p].piece_number, <<>>)
                           w == WriteBarcodes(pieces, <<p>>, (p :> new))
                       IN  /\ pieces' = w.pieces
                           /\ IF w.ok
                              THEN calls' = [calls EXCEPT ![c].pieces = Tail(call.pieces)]
                                   /\ UNCHANGED resp
                              ELSE Return(c, call.op, 500, "DuplicateKeyError")
                           /\ UNCHANGED shipments
    /\ UNCHANGED <<trips, expenses, invoices, payments, documents, made, clock,
                   vehicle_compliance, driver_compliance,
                   invoice_line_items>>

\* A store after create_trip S1, two create_shipment and a
\* create_shipment_piece on each: one trip in planning and two shipments in
\* the warehouse, each with its piece number 1.
InitRace ==
    /\ trips = [t \in {1} |-> [NoTrip EXCEPT !.trip_number = "S1"]]
    /\ shipments = [s \in {1, 2} |-> NoShipment]
    /\ pieces = [p \in {1, 2} |-> [shipment_id |-> p, piece_number |-> 1,
                                   barcode |-> generate_barcode_temp(ZeroPad(<<p>>, 6))]]
    /\ expenses = Empty /\ invoices = Empty /\ payments = Empty /\ documents = Empty
    /\ vehicle_compliance = Empty /\ driver_compliance = Empty /\ calls = Empty
    /\ invoice_line_items = Empty
    /\ made = [trips |-> 1, shipments |-> 2, pieces |-> 2, expenses |-> 0,
               invoices |-> 0, payments |-> 0, documents |-> 0,
               line_items |-> 0]
    /\ clock = 1
    /\ resp = [op |-> "init", code |-> 200, detail |-> "ok"]

\* assign requests that run side by side with each other, with close_trip,
\* with an update_trip that closes, and with delete_trip
NextRace ==
    \/ \E c \in CallIds, u \in Users, t \in TripIds, s \in ShipmentIds :
           assign_shipment_to_trip_await(c, u, t, s)
    \/ \E c \in CallIds : assign_shipment_to_trip_resume(c)
    \/ \E u \in Users, t \in TripIds : close_trip(u, t)
    \/ \E u \in Users, t \in TripIds :
           update_trip(u, t, [trip_number |-> Absent, status |-> "closed"])
    \/ \E u \in Users, t \in TripIds : delete_trip(u, t)

SpecRace == InitRace /\ [][NextRace]_vars

\* C22: once a trip's locked_at is set, no step of an assign request changes
\* which shipments are bound to the trip, also when the request read the
\* trip before it was closed and updates the shipment after.
C22_LockedBindingsKept ==
    [][\A c \in CallIds, t \in TripIds :
         (Locked(t) /\ assign_shipment_to_trip_resume(c)) =>
            BoundTo(shipments', t) = BoundTo(shipments, t)
      ]_vars

\* the pieces of two different shipments that hold the same barcode
SharedBarcodes ==
    {pq \in (DOMAIN pieces) \X (DOMAIN pieces) :
        /\ pieces[pq[1]].shipment_id # pieces[pq[2]].shipment_id
        /\ pieces[pq[1]].barcode = pieces[pq[2]].barcode}

\* C23: two assign requests in flight for two different shipments and the
\* same trip hold different shipment counts once both have counted, and no
\* piece of one shipment has the barcode of a piece of the other.
C23_ConcurrentSequencesDiffer ==
    /\ \A c \in DOMAIN calls, k \in DOMAIN calls :
           (/\ c # k
            /\ calls[c].op = "assign_shipment_to_trip" /\ calls[k].op = calls[c].op
            /\ calls[c].trip_id = calls[k].trip_id
            /\ calls[c].shipment_id # calls[k].shipment_id
            /\ calls[c].pc = "update_piece" /\ calls[k].pc = "update_piece") =>
               calls[c].shipment_count # calls[k].shipment_count
    /\ SharedBarcodes = {}

\* C30: whatever the interleaving of assign_shipment_to_trip and delete_trip,
\* no shipment has a trip_id that names a trip that no longer exists.
C30_NoDanglingTripId ==
    \A s \in DOMAIN shipments :
        shipments[s].trip_id # None => shipments[s].trip_id \in DOMAIN trips

\* ------------------------------------------------------------- payments in flight
\* create_payment up to its first await, db.clients.find_one
create_payment_await(c, user, client_id, invoice_id, amount) ==
    /\ c \notin DOMAIN calls
    /\ IF client_id \notin Clients[user.tenant_id]
       THEN Reply("create_payment", 404, "Client not found") /\ UNCHANGED calls
       ELSE /\ calls' = (c :> [op |-> "create_payment",
                               pc |-> IF invoice_id # None THEN "verify_invoice" ELSE "insert_one",
                               tenant_id |-> user.tenant_id, client_id |-> client_id,
                               invoice_id |-> invoice_id, amount |-> amount,
                               invoice |-> <<>>]) @@ calls
            /\ UNCHANGED resp
    /\ UNCHANGED <<trips, shipments, pieces, expenses, invoices, payments, documents, made,
                   clock, vehicle_compliance, driver_compliance,
                   invoice_line_items>>

\* create_payment from one await to the next: db.invoices.find_one of the
\* check, db.payments.insert_one, db.invoices.find_one, db.payments.find and
\* db.invoices.update_one
create_payment_resume(c) ==
    /\ c \in DOMAIN calls /\ calls[c].op = "create_payment"
    /\ LET call == calls[c]
           i == call.invoice_id
           id == NewId("payments")
       IN  CASE call.pc = "verify_invoice" ->
                  /\ IF InvoiceFound(i, call.tenant_id)
                     THEN calls' = [calls EXCEPT ![c].pc = "insert_one"] /\ UNCHANGED resp
                     ELSE Return(c, call.op, 404, "Invoice not found")
                  /\ UNCHANGED <<payments, invoices, made>>
             [] call.pc = "insert_one" ->
                  /\ payments' = (id :> [tenant_id |-> call.tenant_id,
                                         client_id |-> call.client_id,
                                         invoice_id |-> i, amount |-> call.amount]) @@ payments
                  /\ made' = Made("payments")
                  /\ IF i # None
                     THEN calls' = [calls EXCEPT ![c].pc = "find_invoice"] /\ UNCHANGED resp
                     ELSE Return(c, call.op, 200, "ok")
                  /\ UNCHANGED invoices
             [] call.pc = "find_invoice" ->
                  /\ calls' = [calls EXCEPT
                                 ![c].pc = "find_payments",
                                 ![c].invoice = IF i \in DOMAIN invoices
                                                THEN <<invoices[i]>> ELSE <<>>]
                  /\ UNCHANGED <<payments, invoices, made, resp>>
             [] call.pc = "find_payments" ->
                  \* invoice["total"] of no invoice is a TypeError
                  /\ IF call.invoice = <<>>
                     THEN Return(c, call.op, 500, "TypeError")
                     ELSE IF FullyPaid(TotalPaid(payments, i), call.invoice[1].total)
                     THEN calls' = [calls EXCEPT ![c].pc = "update_invoice"] /\ UNCHANGED resp
                     ELSE Return(c, call.op, 200, "ok")
                  /\ UNCHANGED <<payments, invoices, made>>
             [] call.pc = "update_invoice" ->
                  /\ invoices' = IF i \in DOMAIN invoices
                                 THEN [invoices EXCEPT ![i].status = "paid", ![i].paid_at = Now]
                                 ELSE invoices
                  /\ Return(c, call.op, 200, "ok")
                  /\ UNCHANGED <<payments, made>>
    /\ UNCHANGED <<trips, shipments, pieces, expenses, documents, clock,
                   vehicle_compliance, driver_compliance,
                   invoice_line_items>>

\* delete_payment up to its first await, db.payments.find_one
delete_payment_await(c, user, payment_id) ==
    /\ c \notin DOMAIN calls
    /\ IF user.role \notin {"owner", "finance"}
       THEN Reply("delete_payment", 403, "Only owner/finance can delete payments")
            /\ UNCHANGED calls
       ELSE IF ~(payment_id \in DOMAIN payments
                 /\ payments[payment_id].tenant_id = user.tenant_id)
       THEN Reply("delete_payment", 404, "Payment not found") /\ UNCHANGED calls
       ELSE /\ calls' = (c :> [op |-> "delete_payment", pc |-> "delete_one",
                               tenant_id |-> user.tenant_id, payment_id |-> payment_id,
                               invoice_id |-> payments[payment_id].invoice_id,
                               invoice |-> <<>>, new_status |-> Absent]) @@ calls
            /\ UNCHANGED resp
    /\ UNCHANGED <<trips, shipments, pieces, expenses, invoices, payments, documents, made,
                   clock, vehicle_compliance, driver_compliance,
                   invoice_line_items>>

\* delete_payment from one await to the next: db.payments.delete_one,
\* db.invoices.find_one, db.payments.find and db.invoices.update_one
delete_payment_resume(c) ==
    /\ c \in DOMAIN calls /\ calls[c].op = "delete_payment"
    /\ LET call == calls[c]
           i == call.invoice_id
       IN  CASE call.pc = "delete_one" ->
                  /\ payments' = [p \in DOMAIN payments \ {call.payment_id} |-> payments[p]]
                  /\ IF i # None
                     THEN calls' = [calls EXCEPT ![c].pc = "find_invoice"] /\ UNCHANGED resp
                     ELSE Return(c, call.op, 200, "Payment deleted")
                  /\ UNCHANGED invoices
             [] call.pc = "find_invoice" ->
                  /\ IF i \in DOMAIN invoices /\ invoices[i].status = "paid"
                     THEN /\ calls' = [calls EXCEPT ![c].pc = "find_payments",
                                                    ![c].invoice = <<invoices[i]>>]
                          /\ UNCHANGED resp
                     ELSE Return(c, call.op, 200, "Payment deleted")
                  /\ UNCHANGED <<payments, invoices>>
             [] call.pc = "find_payments" ->
                  /\ IF TotalPaid(payments, i) < call.invoice[1].total
                     THEN /\ calls' = [calls EXCEPT
                                         ![c].pc = "update_invoice",
                                         ![c].new_status = IF call.invoice[1].due_date < Now
                                                           THEN "overdue" ELSE "sent"]
                          /\ UNCHANGED resp
                     ELSE Return(c, call.op, 200, "Payment deleted")
                  /\ UNCHANGED <<payments, invoices>>
             [] call.pc = "update_invoice" ->
                  /\ invoices' = IF i \in DOMAIN invoices
                                 THEN [invoices EXCEPT ![i].status = call.new_status,
                                                       ![i].paid_at = None]
                                 ELSE invoices
                  /\ Return(c, call.op, 200, "Payment deleted")
                  /\ UNCHANGED payments
    /\ UNCHANGED <<trips, shipments, pieces, expenses, documents, made, clock,
                   vehicle_compliance, driver_compliance,
                   invoice_line_items>>

\* A store after create_invoice, update_invoice to sent and `earlier`
\* create_payment of 1 each: one sent invoice that lacks MaxAmount, with no
\* earlier payment or with as many as a list holds.
InitPayRace ==
    \E earlier \in {0, ListLimit} :
        /\ clock = 1
        /\ trips = Empty /\ shipments = Empty /\ pieces = Empty /\ expenses = Empty
        /\ invoices = [i \in {1} |->
                         [tenant_id |-> "tA", client_id |-> "c1", invoice_number |-> Fmt(1, 3),
                          subtotal |-> earlier + MaxAmount, adjustments |-> 0,
                          total |-> earlier + MaxAmount,
                          status |-> "sent", sent_at |-> 1, paid_at |-> None,
                          due_date |-> calculate_due_date(payment_terms_days["c1"])]]
        /\ payments = [p \in 1..earlier |-> [tenant_id |-> "tA", client_id |-> "c1",
                                             invoice_id |-> 1, amount |-> 1]]
        /\ documents = Empty
        /\ vehicle_compliance = Empty /\ driver_compliance = Empty /\ calls = Empty
    /\ invoice_line_items = Empty
        /\ made = [trips |-> 0, shipments |-> 0, pieces |-> 0, expenses |-> 0,
                   invoices |-> 1, payments |-> earlier, documents |-> 0,
               line_items |-> 0]
        /\ resp = [op |-> "init", code |-> 200, detail |-> "ok"]

\* up to MaxPayments create_payment on the invoice, the payments of the store
\* at first not counted, and the delete_payment of the payments they made,
\* side by side
NextPayRace ==
    LET earlier == invoices[1].total - MaxAmount
        pending == {k \in DOMAIN calls : calls[k].pc \in {"verify_invoice", "insert_one"}}
    IN  \/ \E c \in CallIds, u \in Users, a \in Amounts :
               /\ made.payments + Cardinality(pending) < earlier + MaxPayments
               /\ create_payment_await(c, u, "c1", 1, a)
        \/ \E c \in CallIds : create_payment_resume(c)
        \/ \E c \in CallIds, u \in Users, p \in DOMAIN payments :
               p > earlier /\ delete_payment_await(c, u, p)
        \/ \E c \in CallIds : delete_payment_resume(c)

SpecPayRace == InitPayRace /\ [][NextPayRace]_vars

\* C24: when every create_payment and delete_payment on an invoice has
\* completed, the invoice is paid if the payments that remain sum to at
\* least its total and is not paid if they sum to less.
C24_StatusAgreesWithLedger ==
    calls = Empty =>
        \A i \in DOMAIN invoices :
            (invoices[i].status = "paid") <=> PaidInFull(payments, invoices, i)

\* C25: when two create_payment on an unpaid invoice have run side by side
\* and completed, no payment having been deleted, and the amounts together
\* with the earlier payments reach the total, the invoice is paid.
C25_ConcurrentPaymentsSettle ==
    (calls = Empty /\ Cardinality(DOMAIN payments) = made.payments) =>
        \A i \in DOMAIN invoices :
            PaidInFull(payments, invoices, i) => invoices[i].status = "paid"

\* ------------------------------------------------------------- invoicing a trip again
\* invoices are generated for the trip as shipments leave it and come back
NextRegenerate ==
    \/ \E u \in Users, t \in TripIds :
          generate_trip_invoices(u, t) /\ made'.invoices <= MaxInvoices
    \/ \E u \in Users, t \in TripIds, s \in DOMAIN shipments :
          unassign_shipment_from_trip(u, t, s, <<>>)
    \/ \E u \in Users, t \in TripIds, s \in DOMAIN shipments :
          assign_shipment_to_trip(u, t, s)

SpecRegenerate == InitInvoice /\ [][NextRegenerate]_vars

\* the shipments of the trip that make up the client's group
GroupOf(u, t, client_id) ==
    {s \in ParcelsOf(t, u.tenant_id) : shipments[s].client_id = client_id}

\* C26: generate_trip_invoices skips a client's group if and only if an
\* invoice of the client is on file whose shipment_ids are, as a set, the
\* ids of the group; an invoice whose shipment_ids are a strict superset of
\* the group does not make it skip the group.
C26_SkipsOnExactMatchOnly ==
    [][\A u \in Users, t \in TripIds :
         (generate_trip_invoices(u, t) /\ resp'.code = 200) =>
            \A c \in {shipments[s].client_id : s \in ParcelsOf(t, u.tenant_id)} :
                LET skipped == ~\E i \in DOMAIN invoices' \ DOMAIN invoices :
                                    invoices'[i].client_id = c
                    matched == \E i \in DOMAIN invoices :
                                   /\ invoices[i].tenant_id = u.tenant_id
                                   /\ invoices[i].client_id = c
                                   /\ "shipment_ids" \in DOMAIN invoices[i]
                                   /\ invoices[i].shipment_ids = GroupOf(u, t, c)
                IN  skipped <=> matched
      ]_vars

\* ------------------------------------------------------------- finance views
\* Amounts are whole numbers, which round(x, 2) leaves as they are.  A date
\* is a day, so that a due_date parsed as that day's midnight is before
\* datetime.now() on the day itself, and the text of a due_date sorts before
\* now.isoformat() on the day itself.
\* inv.get("paid_amount", 0)
PaidAmount(inv) == IF "paid_amount" \in DOMAIN inv THEN inv.paid_amount ELSE 0

\* the answer gives, for every client listed, total_outstanding and has_overdue
get_client_statements(user) ==
    LET open == to_list({i \in DOMAIN invoices :
                            /\ invoices[i].tenant_id = user.tenant_id
                            /\ invoices[i].status \in {"draft", "sent", "overdue"}}, 5000)
        Of(c) == {i \in open : invoices[i].client_id = c}
        Owed == [i \in open |-> [amount |-> invoices[i].total - PaidAmount(invoices[i])]]
        Late == [i \in {x \in open : invoices[x].status = "overdue"} |-> Owed[i]]
        listed == {c \in Clients[user.tenant_id] :
                      Of(c) # {} /\ SumAmounts(Owed, Of(c)) > 0}
    IN  /\ Reply("get_client_statements", 200,
                 [c \in listed |->
                     [total_outstanding |-> SumAmounts(Owed, Of(c)),
                      has_overdue |-> SumAmounts(Late, Of(c) \cap DOMAIN Late) > 0]])
        /\ UNCHANGED dbvars

\* the answer gives, for every invoice of the trip, paid_amount, outstanding
\* and the status shown
get_trip_worksheet(user, trip_id) ==
    IF ~TripFound(trip_id, user.tenant_id)
    THEN Reply("get_trip_worksheet", 404, "Trip not found") /\ UNCHANGED dbvars
    ELSE LET found == to_list({i \in DOMAIN invoices :
                                  /\ invoices[i].tenant_id = user.tenant_id
                                  /\ "trip_id" \in DOMAIN invoices[i]
                                  /\ invoices[i].trip_id = trip_id}, 1000)
         IN  /\ Reply("get_trip_worksheet", 200,
                      [i \in found |->
                          [paid_amount |-> PaidAmount(invoices[i]),
                           outstanding |-> invoices[i].total - PaidAmount(invoices[i]),
                           status |-> IF /\ invoices[i].status = "sent"
                                         /\ invoices[i].due_date <= Now
                                      THEN "overdue" ELSE invoices[i].status]])
             /\ UNCHANGED dbvars

\* the answer gives, for every invoice listed, its outstanding amount
get_overdue_invoices(user) ==
    LET found == to_list({i \in DOMAIN invoices :
                             /\ invoices[i].tenant_id = user.tenant_id
                             /\ invoices[i].status \in {"draft", "sent", "overdue"}
                             /\ invoices[i].due_date <= Now}, 1000)
        listed == {i \in found : invoices[i].total - PaidAmount(invoices[i]) > 0}
    IN  /\ Reply("get_overdue_invoices", 200,
                 [i \in listed |->
                     [paid_amount |-> PaidAmount(invoices[i]),
                      outstanding |-> invoices[i].total - PaidAmount(invoices[i])]])
        /\ UNCHANGED dbvars

\* the answer gives, for every invoice shown under a client of the trip, its
\* total, its status and paid_amount
get_trip_clients_summary(user, trip_id) ==
    IF ~TripFound(trip_id, user.tenant_id)
    THEN Reply("get_trip_clients_summary", 404, "Trip not found") /\ UNCHANGED dbvars
    ELSE LET parcels == ParcelsOf(trip_id, user.tenant_id)
             trip_invoices == to_list({i \in DOMAIN invoices :
                                          /\ invoices[i].tenant_id = user.tenant_id
                                          /\ "trip_id" \in DOMAIN invoices[i]
                                          /\ invoices[i].trip_id = trip_id}, ListLimit)
             shipment_invoices ==
                 {i \in DOMAIN invoices :
                     /\ invoices[i].tenant_id = user.tenant_id
                     /\ "shipment_ids" \in DOMAIN invoices[i]
                     /\ \E s \in parcels : /\ shipments[s].client_id = invoices[i].client_id
                                           /\ s \in invoices[i].shipment_ids}
         IN  /\ Reply("get_trip_clients_summary", 200,
                      [i \in trip_invoices \cup shipment_invoices |->
                          [total |-> invoices[i].total,
                           status |-> invoices[i].status,
                           paid_amount |-> TotalPaid(payments, i)]])
             /\ UNCHANGED dbvars

\* the answer gives invoice_totals, the totals of the invoices by the status
\* shown, and the stored status of the recent invoices
get_financial_summary(user) ==
    LET found == to_list({i \in DOMAIN invoices : invoices[i].tenant_id = user.tenant_id}, 1000)
        Shown(i) == IF IsOverdue(invoices[i]) THEN "overdue" ELSE invoices[i].status
        Total == [i \in found |-> [amount |-> invoices[i].total]]
    IN  /\ Reply("get_financial_summary", 200,
                 [invoice_totals |-> [st \in InvoiceStatus |->
                                         SumAmounts(Total, {i \in found : Shown(i) = st})],
                  recent_invoices |-> [i \in to_list_newest(found, 5) |-> invoices[i].status]])
        /\ UNCHANGED dbvars

\* A store after create_trip and a create_invoice of MaxAmount for the trip,
\* the client's terms being 0 days: one draft invoice, due today.
InitViews ==
    /\ clock = 1
    /\ trips = [t \in {1} |-> NoTrip]
    /\ shipments = Empty /\ pieces = Empty /\ expenses = Empty
    /\ invoices = [i \in {1} |->
                     [tenant_id |-> "tA", client_id |-> "c1", trip_id |-> 1,
                      invoice_number |-> Fmt(1, 3),
                      subtotal |-> MaxAmount, adjustments |-> 0, total |-> MaxAmount,
                      status |-> "draft", sent_at |-> None, paid_at |-> None,
                      due_date |-> calculate_due_date(payment_terms_days["c1"])]]
    /\ payments = Empty /\ documents = Empty
    /\ vehicle_compliance = Empty /\ driver_compliance = Empty /\ calls = Empty
    /\ invoice_line_items = Empty
    /\ made = [trips |-> 1, shipments |-> 0, pieces |-> 0, expenses |-> 0,
               invoices |-> 1, payments |-> 0, documents |-> 0,
               line_items |-> 0]
    /\ resp = [op |-> "init", code |-> 200, detail |-> "ok"]

\* the invoice is sent, paid and refunded as the days pass, and is read
\* through every view
NextViews ==
    \/ \E u \in Users : update_invoice(u, 1, [status |-> "sent", subtotal |-> None,
                                              adjustments |-> None])
    \/ \E u \in Users, a \in Amounts :
          made.payments < MaxPayments /\ create_payment(u, "c1", 1, a)
    \/ \E u \in Users, p \in PaymentIds : delete_payment(u, p)
    \/ tick
    \/ \E u \in Users : get_invoice(u, 1)
    \/ \E u \in Users : list_invoices(u, Absent, Absent)
    \/ \E u \in Users : get_client_statements(u)
    \/ \E u \in Users, t \in TripIds : get_trip_worksheet(u, t)
    \/ \E u \in Users : get_overdue_invoices(u)
    \/ \E u \in Users, t \in TripIds : get_trip_clients_summary(u, t)
    \/ \E u \in Users : get_financial_summary(u)

SpecViews == InitViews /\ [][NextViews]_vars

\* the invoice's total less the amounts of the payments recorded for it
Outstanding(i) ==
    invoices[i].total - SumAmounts(payments, {p \in DOMAIN payments : payments[p].invoice_id = i})

\* C27: get_invoice's balance_due, the client statements, the trip
\* worksheet, the overdue list and the trip clients-summary all report, for
\* an invoice, outstanding = total - the sum of the payments now recorded for
\* it in the ledger (paid = that sum).
C27_ViewsAgreeOnOutstanding ==
    resp.code = 200 =>
        /\ resp.op = "get_invoice" => resp.detail.balance_due = Outstanding(resp.detail.id)
        /\ resp.op = "get_client_statements" =>
              \A c \in DOMAIN resp.detail :
                  \A i \in DOMAIN invoices :
                      ({x \in DOMAIN invoices : invoices[x].client_id = c} = {i}) =>
                          resp.detail[c].total_outstanding = Outstanding(i)
        /\ resp.op \in {"get_trip_worksheet", "get_overdue_invoices"} =>
              \A i \in DOMAIN resp.detail : resp.detail[i].outstanding = Outstanding(i)
        /\ resp.op = "get_trip_clients_summary" =>
              \A i \in DOMAIN resp.detail :
                  resp.detail[i].total - resp.detail[i].paid_amount = Outstanding(i)

\* C28: every view that shows an invoice's status (list_invoices,
\* get_invoice, the finance summary, the trip worksheet, the client
\* statements, the trip clients-summary) shows overdue for an invoice that
\* is neither paid nor overdue on file and whose due_date has passed.
C28_ViewsAgreeOnOverdue ==
    [][\A u \in Users, i \in DOMAIN invoices, t \in TripIds :
         (invoices[i].status \notin {"paid", "overdue"} /\ invoices[i].due_date < Now) =>
            /\ (get_invoice(u, i) /\ resp'.code = 200) => resp'.detail.status = "overdue"
            /\ (list_invoices(u, Absent, Absent) /\ i \in DOMAIN resp'.detail) =>
                  resp'.detail[i] = "overdue"
            /\ get_financial_summary(u) =>
                  /\ resp'.detail.invoice_totals[invoices[i].status] = 0
                  /\ i \in DOMAIN resp'.detail.recent_invoices =>
                        resp'.detail.recent_invoices[i] = "overdue"
            /\ (get_trip_worksheet(u, t) /\ resp'.code = 200 /\ i \in DOMAIN resp'.detail) =>
                  resp'.detail[i].status = "overdue"
            /\ (get_client_statements(u) /\ invoices[i].client_id \in DOMAIN resp'.detail) =>
                  resp'.detail[invoices[i].client_id].has_overdue
            /\ (get_trip_clients_summary(u, t) /\ resp'.code = 200
                  /\ i \in DOMAIN resp'.detail) =>
                  resp'.detail[i].status = "overdue"
      ]_vars

\* ------------------------------------------------------------- deleting a trip
\* the owner and a manager of each of the two tenants
Deleters == [tenant_id : {"tA", "tB"}, role : {"owner", "manager"}]

\* From the store of InitTenant (tenant tA holds trip 1 with shipment 1 and
\* expense 1, tenant tB those numbered 2) the trips are closed and deleted,
\* shipments are bound and unbound and expenses are deleted.
NextDelete ==
    \/ \E u \in Deleters, t \in 1..2 : close_trip(u, t)
    \/ \E u \in Deleters, t \in 1..2 : delete_trip(u, t)
    \/ \E u \in Deleters, t \in 1..2, s \in 1..2 : assign_shipment_to_trip(u, t, s)
    \/ \E u \in Deleters, t \in 1..2, s \in 1..2 : \E d \in [PiecesOf(s) -> {ZeroPad(<<0>>, 6)}] :
          unassign_shipment_from_trip(u, t, s, d)
    \/ \E u \in Deleters, s \in 1..2, upd \in TenantShipmentUpdates : update_shipment(u, s, upd)
    \/ \E u \in Deleters, t \in 1..2, e \in 1..2 : delete_trip_expense(u, t, e)

SpecDelete == InitTenant /\ [][NextDelete]_vars

\* C29: after delete_trip succeeds (trip unlocked, or the actor is owner) no
\* shipment has trip_id equal to the deleted trip, each shipment that was
\* bound to it has trip_id null and status warehouse, no expense of the trip
\* remains and every piece barcode is as it was; a non-owner deleting a
\* locked trip is rejected and nothing changes.
C29_DeleteTripCascade ==
    [][\A u \in Deleters, t \in DOMAIN trips :
         (trips[t].tenant_id = u.tenant_id /\ delete_trip(u, t)) =>
            IF trips[t].locked_at # None /\ u.role # "owner"
            THEN resp'.code = 403 /\ UNCHANGED dbvars
            ELSE /\ resp'.code = 200
                 /\ \A s \in DOMAIN shipments' : shipments'[s].trip_id # t
                 /\ \A s \in DOMAIN shipments :
                       shipments[s].trip_id = t =>
                          shipments'[s].trip_id = None /\ shipments'[s].status = "warehouse"
                 /\ \A e \in DOMAIN expenses' : expenses'[e].trip_id # t
                 /\ pieces' = pieces
      ]_vars

\* ------------------------------------------------------------- invoices in flight
\* create_invoice up to its first await, db.clients.find_one
create_invoice_await(c, user, client_id, subtotal, adjustments) ==
    /\ c \notin DOMAIN calls
    /\ IF client_id \notin Clients[user.tenant_id]
       THEN Reply("create_invoice", 404, "Client not found") /\ UNCHANGED calls
       ELSE /\ calls' = (c :> [op |-> "create_invoice", pc |-> "generate_invoice_number",
                               tenant_id |-> user.tenant_id, client_id |-> client_id,
                               subtotal |-> subtotal, adjustments |-> adjustments,
                               invoice_number |-> <<>>]) @@ calls
            /\ UNCHANGED resp
    /\ UNCHANGED <<trips, shipments, pieces, expenses, invoices, payments, documents, made,
                   clock, vehicle_compliance, driver_compliance,
                   invoice_line_items>>

\* create_invoice from one await to the next: the find_one of
\* generate_invoice_number, then db.invoices.insert_one, whose
\* DuplicateKeyError no handler catches
create_invoice_resume(c) ==
    /\ c \in DOMAIN calls /\ calls[c].op = "create_invoice"
    /\ LET call == calls[c]
           id == NewId("invoices")
       IN  CASE call.pc = "generate_invoice_number" ->
                  /\ calls' = [calls EXCEPT
                                 ![c].pc = "insert_one",
                                 ![c].invoice_number = generate_invoice_number(call.tenant_id)]
                  /\ UNCHANGED <<invoices, made, resp>>
             [] call.pc = "insert_one" ->
                  IF DuplicateKey(invoices, call.tenant_id, call.invoice_number)
                  THEN /\ Return(c, call.op, 500, "DuplicateKeyError")
                       /\ UNCHANGED <<invoices, made>>
                  ELSE /\ invoices' =
                             (id :> [tenant_id |-> call.tenant_id, client_id |-> call.client_id,
                                     invoice_number |-> call.invoice_number,
                                     subtotal |-> call.subtotal,
                                     adjustments |-> call.adjustments,
                                     total |-> call.subtotal + call.adjustments,
                                     status |-> "draft", sent_at |-> None, paid_at |-> None,
                                     due_date |->
                                         calculate_due_date(payment_terms_days[call.client_id])])
                             @@ invoices
                       /\ made' = Made("invoices")
                       /\ Return(c, call.op, 200, "ok")
    /\ UNCHANGED <<trips, shipments, pieces, expenses, payments, documents, clock,
                   vehicle_compliance, driver_compliance,
                   invoice_line_items>>

\* invoices are created by requests that run side by side, and deleted
NextInvoiceRace ==
    \/ \E c \in CallIds, u \in Users, s \in Amounts :
          /\ made.invoices + Cardinality(DOMAIN calls) < MaxInvoices
          /\ create_invoice_await(c, u, "c1", s, 0)
    \/ \E c \in CallIds : create_invoice_resume(c)
    \/ \E u \in Users, i \in 1..MaxInvoices : delete_invoice(u, i)

SpecInvoiceRace == Init /\ [][NextInvoiceRace]_vars

\* C31: when the insert of an invoice hits the uniqueness Conflict on
\* invoice_number, because another creation of the same tenant took the
\* number between this request's read and its write, the request does not
\* fail: it stays in flight to try again with a recomputed number, or the
\* invoice is created.
C31_ConflictIsRetried ==
    [][\A c \in DOMAIN calls :
         (/\ calls[c].op = "create_invoice" /\ calls[c].pc = "insert_one"
          /\ DuplicateKey(invoices, calls[c].tenant_id, calls[c].invoice_number)
          /\ create_invoice_resume(c)) =>
            \/ c \in DOMAIN calls' /\ calls'[c].pc = "generate_invoice_number"
            \/ resp'.code = 200 /\ made'.invoices = made.invoices + 1
      ]_vars

\* ------------------------------------------------------------- a batch that fails
\* the trip is invoiced again and again while shipments are put on it and
\* taken off it and invoices are deleted
NextBatch ==
    \/ \E u \in Users, t \in TripIds :
          generate_trip_invoices(u, t) /\ made'.invoices <= MaxInvoices
    \/ \E u \in Users, t \in TripIds, s \in DOMAIN shipments :
          unassign_shipment_from_trip(u, t, s, <<>>)
    \/ \E u \in Users, t \in TripIds, s \in DOMAIN shipments :
          assign_shipment_to_trip(u, t, s)
    \/ \E u \in Users, i \in 1..MaxInvoices : delete_invoice(u, i)

SpecBatch == InitInvoice /\ [][NextBatch]_vars

\* the client groups of the trip that no invoice on file covers
Uncovered(invs, u, t) ==
    {c \in {shipments[s].client_id : s \in ParcelsOf(t, u.tenant_id)} :
        ~ExistingInvoice(invs, u.tenant_id, c, GroupOf(u, t, c))}

\* C32: when generate_trip_invoices goes through several client groups and
\* the creation of one client's invoice fails, the request still answers
\* with its report of the invoices created, and a group is left without an
\* invoice only if its own insert fails: the failure of one client does not
\* block the others.
C32_FailureDoesNotBlockOthers ==
    [][\A u \in Users, t \in TripIds :
         (/\ TripFound(t, u.tenant_id)
          /\ Cardinality(Uncovered(invoices, u, t)) > 1
          /\ DuplicateKey(invoices, u.tenant_id, CountInvoiceNumber(invoices, u.tenant_id))
          /\ generate_trip_invoices(u, t)) =>
            /\ resp'.code = 200
            /\ resp'.detail.created = Cardinality(DOMAIN invoices' \ DOMAIN invoices)
            /\ Uncovered(invoices', u, t) # {} =>
                  DuplicateKey(invoices', u.tenant_id,
                               CountInvoiceNumber(invoices', u.tenant_id))
      ]_vars

\* ------------------------------------------------------------- invoice line items
MaxLineItems == 2
LineItemIds == 1..MaxLineItems

\* item_data: weight = None is an item without a weight
ItemData == [weight : {None, 2}, quantity : {1}, rate : {1}]

\* amount = weight * rate if item_data.weight else quantity * rate
ItemAmount(item_data) ==
    IF item_data.weight # None THEN item_data.weight * item_data.rate
    ELSE item_data.quantity * item_data.rate

\* invoice["status"] != "draft" is refused
IsUnpaid(invoice) == invoice.status # "paid"
IsDraft(invoice) == invoice.status = "draft"

\* db.invoice_line_items.find({"invoice_id": invoice_id}).to_list(100)
ItemsOf(invoice_id) ==
    to_list({x \in DOMAIN invoice_line_items :
                invoice_line_items[x].invoice_id = invoice_id}, ListLimit)

\* add_invoice_item up to its first await, db.invoices.find_one, and the
\* checks on what it finds
add_invoice_item_await(c, user, invoice_id, item_data) ==
    /\ c \notin DOMAIN calls
    /\ IF ~InvoiceFound(invoice_id, user.tenant_id)
       THEN Reply("add_invoice_item", 404, "Invoice not found") /\ UNCHANGED calls
       ELSE IF ~IsDraft(invoices[invoice_id])
       THEN Reply("add_invoice_item", 400, "Can only add items to draft invoices")
            /\ UNCHANGED calls
       ELSE /\ calls' = (c :> [op |-> "add_invoice_item", pc |-> "insert_one",
                               invoice_id |-> invoice_id, invoice |-> invoices[invoice_id],
                               amount |-> ItemAmount(item_data), new_subtotal |-> 0]) @@ calls
            /\ UNCHANGED resp
    /\ UNCHANGED <<trips, shipments, pieces, expenses, invoices, payments, documents, made,
                   clock, vehicle_compliance, driver_compliance, invoice_line_items>>

\* the end of both handlers, from one await to the next: the find of the
\* invoice's items, with new_subtotal = sum(i["amount"] for i in all_items)
\* and invoice["adjustments"] read from the invoice as it was found, then
\* db.invoices.update_one({"id": invoice_id})
RecomputeSubtotal(c) ==
    LET call == calls[c]
        i == call.invoice_id
    IN  CASE call.pc = "find" ->
               /\ IF "adjustments" \notin DOMAIN call.invoice
                  THEN Return(c, call.op, 500, "KeyError")
                  ELSE /\ calls' = [calls EXCEPT
                                      ![c].pc = "update_one",
                                      ![c].new_subtotal =
                                          SumAmounts(invoice_line_items, ItemsOf(i))]
                       /\ UNCHANGED resp
               /\ UNCHANGED <<invoices, invoice_line_items, made>>
          [] call.pc = "update_one" ->
               /\ invoices' = IF i \in DOMAIN invoices
                              THEN [invoices EXCEPT
                                      ![i].subtotal = call.new_subtotal,
                                      ![i].total = call.new_subtotal + call.invoice.adjustments]
                              ELSE invoices
               /\ Return(c, call.op, 200, "ok")
               /\ UNCHANGED <<invoice_line_items, made>>

add_invoice_item_resume(c) ==
    /\ c \in DOMAIN calls /\ calls[c].op = "add_invoice_item"
    /\ IF calls[c].pc = "insert_one"
       THEN /\ invoice_line_items' =
                  (NewId("line_items") :> [invoice_id |-> calls[c].invoice_id,
                                           amount |-> calls[c].amount]) @@ invoice_line_items
            /\ made' = Made("line_items")
            /\ calls' = [calls EXCEPT ![c].pc = "find"]
            /\ UNCHANGED <<invoices, resp>>
       ELSE RecomputeSubtotal(c)
    /\ UNCHANGED <<trips, shipments, pieces, expenses, payments, documents, clock,
                   vehicle_compliance, driver_compliance>>

\* delete_invoice_item up to its first await, db.invoices.find_one, and the
\* checks on what it finds
delete_invoice_item_await(c, user, invoice_id, item_id) ==
    /\ c \notin DOMAIN calls
    /\ IF ~InvoiceFound(invoice_id, user.tenant_id)
       THEN Reply("delete_invoice_item", 404, "Invoice not found") /\ UNCHANGED calls
       ELSE IF ~IsDraft(invoices[invoice_id])
       THEN Reply("delete_invoice_item", 400, "Can only remove items from draft invoices")
            /\ UNCHANGED calls
       ELSE /\ calls' = (c :> [op |-> "delete_invoice_item", pc |-> "delete_one",
                               invoice_id |-> invoice_id, invoice |-> invoices[invoice_id],
                               item_id |-> item_id, new_subtotal |-> 0]) @@ calls
            /\ UNCHANGED resp
    /\ UNCHANGED <<trips, shipments, pieces, expenses, invoices, payments, documents, made,
                   clock, vehicle_compliance, driver_compliance, invoice_line_items>>

delete_invoice_item_resume(c) ==
    /\ c \in DOMAIN calls /\ calls[c].op = "delete_invoice_item"
    /\ IF calls[c].pc = "delete_one"
       THEN LET x == calls[c].item_id IN
            /\ IF /\ x \in DOMAIN invoice_line_items
                  /\ invoice_line_items[x].invoice_id = calls[c].invoice_id
               THEN /\ invoice_line_items' =
                          [y \in DOMAIN invoice_line_items \ {x} |-> invoice_line_items[y]]
                    /\ calls' = [calls EXCEPT ![c].pc = "find"]
                    /\ UNCHANGED resp
               ELSE /\ Return(c, calls[c].op, 404, "Item not found")
                    /\ UNCHANGED invoice_line_items
            /\ UNCHANGED <<invoices, made>>
       ELSE RecomputeSubtotal(c)
    /\ UNCHANGED <<trips, shipments, pieces, expenses, payments, documents, clock,
                   vehicle_compliance, driver_compliance>>

\* A store after a create_invoice of subtotal 0 for client c1: one draft
\* invoice without line items.
InitItems ==
    /\ clock = 1
    /\ trips = Empty /\ shipments = Empty /\ pieces = Empty /\ expenses = Empty
    /\ invoices = [i \in {1} |->
                     [tenant_id |-> "tA", client_id |-> "c1", invoice_number |-> Fmt(1, 3),
                      subtotal |-> 0, adjustments |-> 0, total |-> 0,
                      status |-> "draft", sent_at |-> None, paid_at |-> None,
                      due_date |-> calculate_due_date(payment_terms_days["c1"])]]
    /\ payments = Empty /\ documents = Empty
    /\ vehicle_compliance = Empty /\ driver_compliance = Empty /\ calls = Empty
    /\ invoice_line_items = Empty
    /\ made = [trips |-> 0, shipments |-> 0, pieces |-> 0, expenses |-> 0,
               invoices |-> 1, payments |-> 0, documents |-> 0,
               line_items |-> 0]
    /\ resp = [op |-> "init", code |-> 200, detail |-> "ok"]

\* the status the invoice is given by update_invoice
ItemStatusEdits == [status : {"sent", "paid", "overdue"}, subtotal : {None}, adjustments : {None}]

\* line items are added and deleted by requests that run side by side, and
\* the invoice is sent, paid or put overdue
NextItems ==
    \/ \E c \in CallIds, u \in Users, d \in ItemData :
          /\ made.line_items
               + Cardinality({k \in DOMAIN calls : calls[k].pc = "insert_one"}) < MaxLineItems
          /\ add_invoice_item_await(c, u, 1, d)
    \/ \E c \in CallIds : add_invoice_item_resume(c)
    \/ \E c \in CallIds, u \in Users, x \in LineItemIds : delete_invoice_item_await(c, u, 1, x)
    \/ \E c \in CallIds : delete_invoice_item_resume(c)
    \/ \E u \in Users, upd \in ItemStatusEdits : update_invoice(u, 1, upd)

SpecItems == InitItems /\ [][NextItems]_vars

\* C33: once the add_invoice_item and delete_invoice_item requests on a draft
\* invoice have all completed, whichever way they interleaved, the subtotal
\* on file is the sum of the amounts of the line items on file for the
\* invoice.
C33_SubtotalIsSumOfItems ==
    \A i \in DOMAIN invoices :
        (calls = Empty /\ resp.op \in {"add_invoice_item", "delete_invoice_item"}) =>
            invoices[i].subtotal =
                SumAmounts(invoice_line_items,
                           {x \in DOMAIN invoice_line_items :
                               invoice_line_items[x].invoice_id = i})

\* the same requests, each one sent when the one before it has been answered
NextItemGate ==
    \/ \E c \in CallIds, u \in Users, d \in ItemData :
          /\ calls = Empty /\ made.line_items < MaxLineItems
          /\ add_invoice_item_await(c, u, 1, d)
    \/ \E c \in CallIds : add_invoice_item_resume(c)
    \/ \E c \in CallIds, u \in Users, x \in LineItemIds :
          calls = Empty /\ delete_invoice_item_await(c, u, 1, x)
    \/ \E c \in CallIds : delete_invoice_item_resume(c)
    \/ \E u \in Users, upd \in ItemStatusEdits : calls = Empty /\ update_invoice(u, 1, upd)

SpecItemGate == InitItems /\ [][NextItemGate]_vars

\* C34: add_invoice_item and delete_invoice_item on an invoice whose status
\* is sent, paid or overdue are rejected, and the invoice's line items, its
\* subtotal and its total stay as they are.
C34_ItemsFrozenUnlessDraft ==
    [][\A c \in CallIds, u \in Users, i \in DOMAIN invoices :
         (/\ invoices[i].tenant_id = u.tenant_id
          /\ invoices[i].status \in {"sent", "paid", "overdue"}
          /\ \/ \E d \in ItemData : add_invoice_item_await(c, u, i, d)
             \/ \E x \in LineItemIds : delete_invoice_item_await(c, u, i, x)) =>
            /\ resp'.code = 400
            /\ calls' = calls
            /\ invoice_line_items' = invoice_line_items
            /\ invoices' = invoices
      ]_vars

\* a sent invoice with a line item has just refused a change of its items
C34_Witness ==
    /\ resp.op \in {"add_invoice_item", "delete_invoice_item"} /\ resp.code = 400
    /\ calls = Empty
    /\ \E i \in DOMAIN invoices :
          /\ invoices[i].status \in {"sent", "paid", "overdue"}
          /\ \E x \in DOMAIN invoice_line_items : invoice_line_items[x].invoice_id = i

\* ------------------------------------------------------------- a TEMP barcode taken
\* C35: when the TEMP barcode drawn for a piece during
\* unassign_shipment_from_trip is a barcode another piece already holds, the
\* unassignment still completes: the shipment ends with trip_id null and
\* status warehouse and every piece of it ends with a TEMP-pattern barcode.
C35_TempCollisionIsNotFatal ==
    [][\A u \in Users, t \in TripIds, s \in ShipmentIds :
         \A d \in [PiecesOf(s) -> RandomDigits] :
            (/\ TripFound(t, u.tenant_id) /\ trips[t].locked_at = None
             /\ shipments[s].tenant_id = u.tenant_id /\ shipments[s].trip_id = t
             /\ \E p \in PiecesOf(s), q \in DOMAIN pieces :
                   q # p /\ pieces[q].barcode = generate_barcode_temp(d[p])
             /\ unassign_shipment_from_trip(u, t, s, d)) =>
               /\ resp'.code = 200
               /\ shipments'[s].trip_id = None /\ shipments'[s].status = "warehouse"
               /\ \A p \in PiecesOf(s) : IsTempPattern(pieces'[p].barcode)
      ]_vars

\* ------------------------------------------------------------- loading a piece
\* the piece is looked up by its id alone, then its shipment by id and tenant
mark_piece_loaded(user, piece_id) ==
    IF piece_id \notin DOMAIN pieces
    THEN Reply("mark_piece_loaded", 404, "Piece not found") /\ UNCHANGED dbvars
    ELSE IF ~(/\ pieces[piece_id].shipment_id \in DOMAIN shipments
              /\ shipments[pieces[piece_id].shipment_id].tenant_id = user.tenant_id)
    THEN Reply("mark_piece_loaded", 403, "Access denied") /\ UNCHANGED dbvars
    ELSE /\ pieces' = [pieces EXCEPT ![piece_id] = [loaded_at |-> Now] @@ @]
         /\ Reply("mark_piece_loaded", 200, "Piece marked as loaded")
         /\ UNCHANGED <<trips, shipments, expenses, invoices, payments, made, clock, documents,
                        aside>>

\* From the store of InitTenant the users of both tenants load pieces, bind
\* shipments and take parcels off trips; piece 3 and shipment 3 are ids that
\* no document has.
NextScope ==
    \/ \E u \in Deleters, p \in 1..3 : mark_piece_loaded(u, p)
    \/ \E u \in Deleters, s \in 1..2, upd \in TenantShipmentUpdates : update_shipment(u, s, upd)
    \/ \E u \in Deleters, t \in 1..2, s \in 1..3 : \E d \in [PiecesOf(s) -> {ZeroPad(<<1>>, 8)}] :
          remove_parcel_from_trip(u, t, s, d)
    \/ \E u \in Deleters, t \in 1..2, s \in 1..2 : assign_shipment_to_trip(u, t, s)

SpecScope == InitTenant /\ [][NextScope]_vars

\* C36: a request that names by its id an entity of another tenant gets the
\* answer, error kind and message, that the same request gets for an id no
\* entity has, and changes nothing: for mark_piece_loaded the answer to a
\* missing piece, for remove_parcel_from_trip on the caller's own open trip
\* the answer to a missing parcel.
C36_ForeignLooksAbsent ==
    [][\A u \in Deleters :
         /\ \A a \in (1..3) \ DOMAIN pieces, p \in ForeignPieces(u) :
               /\ mark_piece_loaded(u, a) =>
                     resp'.code = 404 /\ resp'.detail = "Piece not found"
               /\ mark_piece_loaded(u, p) =>
                     resp'.code = 404 /\ resp'.detail = "Piece not found" /\ UNCHANGED dbvars
         /\ \A t \in DOMAIN trips :
               (trips[t].tenant_id = u.tenant_id /\ trips[t].locked_at = None) =>
                  \A a \in (1..3) \ DOMAIN shipments, x \in ForeignShipments(u) :
                     /\ remove_parcel_from_trip(u, t, a, <<>>) =>
                           resp'.code = 404 /\ resp'.detail = "Parcel not found on this trip"
                     /\ \A d \in [PiecesOf(x) -> {ZeroPad(<<1>>, 8)}] :
                           remove_parcel_from_trip(u, t, x, d) =>
                              /\ resp'.code = 404
                              /\ resp'.detail = "Parcel not found on this trip"
                              /\ UNCHANGED dbvars
      ]_vars

\* ------------------------------------------------------------- the next trip number
\* Where the digits of a trip number are read, the number is kept as its
\* first letter and the characters after it, each decimal digit its value.
TripNumberOf(letter, digits) == [letter |-> letter, digits |-> digits]

\* the longest run of digits the pattern of the two handlers accepts
PatternDigits == 4

\* {"trip_number": {"$regex": "^S\\d{1,4}$"}}
MatchesAnyLength(trip_number) == trip_number.letter = "S" /\ Len(trip_number.digits) >= 1
MatchesPattern(trip_number) ==
    /\ trip_number.letter = "S"
    /\ Len(trip_number.digits) \in 1..PatternDigits

\* max_num over the tenant's trips the find returns, int(trip_number[1:])
MaxNum(tenant_id) ==
    LET nums == {IntOf(trips[t].trip_number.digits) :
                    t \in {x \in DOMAIN trips : /\ trips[x].tenant_id = tenant_id
                                                /\ MatchesPattern(trips[x].trip_number)}}
    IN  IF nums = {} THEN 0 ELSE CHOOSE n \in nums : \A k \in nums : k <= n

\* f"S{max_num + 1}"
next_number(tenant_id) == TripNumberOf("S", DecDigits(MaxNum(tenant_id) + 1))

get_next_trip_number(user) ==
    /\ Reply("get_next_trip_number", 200, next_number(user.tenant_id))
    /\ UNCHANGED dbvars

\* the insert is under the unique index on trips (tenant_id, trip_number);
\* the new document has no locked_at, actual_departure or actual_arrival,
\* which every reader takes with trip.get(...) and so finds None
duplicate_trip(user, trip_id) ==
    LET tenant_id == user.tenant_id
        new_trip_number == next_number(tenant_id) IN
    IF ~TripFound(trip_id, tenant_id)
    THEN Reply("duplicate_trip", 404, "Trip not found") /\ UNCHANGED dbvars
    ELSE IF ExistingTrip(tenant_id, new_trip_number, None)
    THEN Reply("duplicate_trip", 500, "DuplicateKeyError") /\ UNCHANGED dbvars
    ELSE /\ trips' = (NewId("trips") :> [tenant_id |-> tenant_id,
                                         trip_number |-> new_trip_number,
                                         status |-> "planning", locked_at |-> None,
                                         actual_departure |-> None,
                                         actual_arrival |-> None]) @@ trips
         /\ made' = Made("trips")
         /\ Reply("duplicate_trip", 200, new_trip_number)
         /\ UNCHANGED <<shipments, pieces, expenses, invoices, payments, clock, documents, aside>>

\* the trip numbers the users give their trips
GivenNumbers ==
    {TripNumberOf("S", <<1>>), TripNumberOf("S", <<0, 2>>), TripNumberOf("S", <<9, 9, 9, 9>>),
     TripNumberOf("S", <<1, 0, 0, 0, 0>>), TripNumberOf("T", <<7>>)}

\* trips are created with a number the user gives, duplicated and deleted
NextDuplicate ==
    \/ \E u \in Users, n \in GivenNumbers : create_trip(u, n)
    \/ \E u \in Users, t \in TripIds : duplicate_trip(u, t) /\ made'.trips <= MaxTrips
    \/ \E u \in Users : get_next_trip_number(u)
    \/ \E u \in Users, t \in TripIds : delete_trip(u, t)

SpecDuplicate == Init /\ [][NextDuplicate]_vars

\* the largest numeric suffix among all the tenant's S<digits> trip numbers
LargestSuffix(tenant_id) ==
    LET nums == {IntOf(trips[t].trip_number.digits) :
                    t \in {x \in DOMAIN trips : /\ trips[x].tenant_id = tenant_id
                                                /\ MatchesAnyLength(trips[x].trip_number)}}
    IN  IF nums = {} THEN 0 ELSE CHOOSE n \in nums : \A k \in nums : k <= n

\* C37: duplicate_trip and get_next_trip_number produce the number S<m+1>,
\* m the largest numeric suffix among all the tenant's S<digits> trip
\* numbers however many digits they have, a number no trip of the tenant
\* uses, and duplicate_trip gives it to the new trip.
C37_NextNumberIsFree ==
    [][\A u \in Users :
         LET next == TripNumberOf("S", DecDigits(LargestSuffix(u.tenant_id) + 1)) IN
         /\ get_next_trip_number(u) =>
               /\ resp'.detail = next
               /\ ~ExistingTrip(u.tenant_id, resp'.detail, None)
         /\ \A t \in TripIds :
               (TripFound(t, u.tenant_id) /\ duplicate_trip(u, t)) =>
                  /\ resp'.code = 200
                  /\ trips'[NewId("trips")].trip_number = next
                  /\ ~ExistingTrip(u.tenant_id, next, None)
      ]_vars

\* ------------------------------------------------------------- closing a trip
\* trips are created, duplicated, closed by close_trip and given a status by
\* either handler of PUT /trips/{trip_id}, as the days pass
NextClosing ==
    \/ \E u \in Users : create_trip(u, TripNumberOf("S", <<1>>))
    \/ \E u \in Users, t \in TripIds : duplicate_trip(u, t) /\ made'.trips <= MaxTrips
    \/ \E u \in Users, t \in TripIds : close_trip(u, t)
    \/ \E u \in Users, t \in TripIds, upd \in LockTripUpdates : update_trip(u, t, upd)
    \/ \E u \in Users, t \in TripIds, upd \in LockTripUpdates : server_update_trip(u, t, upd)
    \/ \E u \in Users, t \in TripIds : delete_trip(u, t)
    \/ tick

SpecClosing == Init /\ [][NextClosing]_vars

\* C38: in every reachable state a trip whose status is closed has locked_at
\* set, whether close_trip or an update_trip with status = closed closed it.
C38_ClosedIsLocked ==
    \A t \in DOMAIN trips : trips[t].status = "closed" => trips[t].locked_at # None

\* an update_trip has just closed a trip
C38_Witness ==
    /\ resp.op \in {"update_trip", "server_update_trip"} /\ resp.code = 200
    /\ \E t \in DOMAIN trips : trips[t].status = "closed" /\ trips[t].locked_at = Now

\* ------------------------------------------------------------- sent invoices
\* C39: in every reachable state an invoice whose status is sent has sent_at
\* set: no sequence of requests, paying a draft in full and deleting the
\* payment included, makes an invoice sent without the step from draft to sent.
C39_SentHasSentAt ==
    \A i \in DOMAIN invoices : invoices[i].status = "sent" => invoices[i].sent_at # None

====
